---------------------------- MODULE Spec2Model ----------------------------
(***************************************************************************)
(* Model of the course-analytics pipeline of DC_Statistic: the roster      *)
(* loader (load_student_list) and the completion extractor                 *)
(* (extract_course_data) of streamlit_app.py, as pure functions over       *)
(* tables, applied by the actions of a small state machine.                *)
(*                                                                         *)
(* Text.  A Python str is a tuple of one-character tokens.  ASCII          *)
(* characters stand for themselves; a Cyrillic letter is written as its    *)
(* Latin transliteration followed by "~" ("v~" is CYRILLIC SMALL LETTER    *)
(* VE, "V~" the capital), so the Latin and the Cyrillic alphabets stay     *)
(* disjoint and substring tests mean what they mean in the source.         *)
(*                                                                         *)
(* Cells.  A table cell is a record: a str, a number (a rational p/q in    *)
(* lowest terms, standing for the float), the pandas missing value NaN or  *)
(* Python's None.                                                          *)
(***************************************************************************)
EXTENDS Integers, Sequences, FiniteSets, TLC

VARIABLES
  op,            \* the call made last: "idle", "load_student_list", "extract_course_data", ...
  uploaded_file, \* its uploaded_file argument
  course_name,   \* its course_name argument (extract_course_data only)
  result,        \* what the call returned, with the locals the properties speak about
  students,          \* student_list, consolidate_data's roster argument
  courses,           \* course_data_list, consolidate_data's list of course tables
  consolidated_data, \* what consolidate_data returned
  course_analytics,  \* the remote table: its records, a record's id is its position
  uploads,           \* what each call of upload_to_supabase did, in order
  students_table,    \* the remote table 'students': its records, in order of insertion
  upsert,            \* the running call of upload_students_to_supabase: its position and locals
  run,               \* the running entry point: which main, its position, what it has done
  sheet,             \* the Google worksheet and the running call of update_google_sheet_incremental
  course_uploads,    \* the course tables and the running call of upload_all_courses_to_supabase
  invocations        \* two invocations of the upload at once: each one's position and locals

file_vars == <<uploaded_file, course_name, result>>
sink_vars == <<students, courses, consolidated_data, course_analytics, uploads>>
upsert_vars == <<students_table, upsert>>
more_vars == <<sheet, course_uploads, invocations>>

vars == <<op, uploaded_file, course_name, result,
          students, courses, consolidated_data, course_analytics, uploads,
          students_table, upsert, run, sheet, course_uploads, invocations>>

---------------------------------------------------------------------------
(* Bounds of the inputs. *)

\* Largest number of data rows of an uploaded table.
MaxRows == 2

\* Largest number of headers of a roster whose header row is enumerated freely.
MaxHeaders == 3

---------------------------------------------------------------------------
(* Python str operations. *)

WHITESPACE == {" ", "\t", "\n", "\r"}

LATIN_UPPER == <<"A","B","C","D","E","F","G","H","I","J","K","L","M","N","O","P","Q","R","S","T","U","V","W","X","Y","Z">>
LATIN_LOWER == <<"a","b","c","d","e","f","g","h","i","j","k","l","m","n","o","p","q","r","s","t","u","v","w","x","y","z">>
CYR_UPPER == <<"A~","B~","V~","G~","D~","E~","YO~","ZH~","Z~","I~","J~","K~","L~","M~","N~","O~","P~","R~","S~","T~","U~","F~","H~","C~","CH~","SH~","SCH~","HD~","Y~","SF~","EH~","YU~","YA~">>
CYR_LOWER == <<"a~","b~","v~","g~","d~","e~","yo~","zh~","z~","i~","j~","k~","l~","m~","n~","o~","p~","r~","s~","t~","u~","f~","h~","c~","ch~","sh~","sch~","hd~","y~","sf~","eh~","yu~","ya~">>

\* str.lower() on one character.
lower_map ==
  [c \in {LATIN_UPPER[i] : i \in 1..Len(LATIN_UPPER)} \cup {CYR_UPPER[i] : i \in 1..Len(CYR_UPPER)} |->
     IF \E i \in 1..Len(LATIN_UPPER) : LATIN_UPPER[i] = c
     THEN LATIN_LOWER[CHOOSE i \in 1..Len(LATIN_UPPER) : LATIN_UPPER[i] = c]
     ELSE CYR_LOWER[CHOOSE i \in 1..Len(CYR_UPPER) : CYR_UPPER[i] = c]]

lower_char(c) == IF c \in DOMAIN lower_map THEN lower_map[c] ELSE c

\* str.lower()
lower(s) == [i \in 1..Len(s) |-> lower_char(s[i])]

\* str.strip(): drops leading and trailing whitespace.
strip(s) ==
  LET keep == {i \in 1..Len(s) : s[i] \notin WHITESPACE}
  IN  IF keep = {} THEN <<>>
      ELSE LET lo == CHOOSE i \in keep : \A j \in keep : i <= j
               hi == CHOOSE i \in keep : \A j \in keep : j <= i
           IN  SubSeq(s, lo, hi)

\* Python's `sub in s`: literal substring containment.
contains(s, sub) ==
  \E i \in 0..(Len(s) - Len(sub)) : \A j \in 1..Len(sub) : s[i + j] = sub[j]

\* pandas Series.str.contains(pat) with its defaults (regex=True, case=True):
\* re.search, where "." in the pattern matches any character but a newline
\* and every other character of the patterns used here matches itself.
str_contains(s, pat) ==
  \E i \in 0..(Len(s) - Len(pat)) :
     \A j \in 1..Len(pat) :
        IF pat[j] = "." THEN s[i + j] # "\n" ELSE s[i + j] = pat[j]

\* str.startswith(prefix)
startswith(s, prefix) ==
  Len(s) >= Len(prefix) /\ SubSeq(s, 1, Len(prefix)) = prefix

\* str.endswith(suffix)
endswith(s, suffix) ==
  Len(s) >= Len(suffix) /\ SubSeq(s, Len(s) - Len(suffix) + 1, Len(s)) = suffix

\* str.split(sep) for a one-character separator: the list of parts.
RECURSIVE split(_, _)
split(s, sep) ==
  IF \A i \in 1..Len(s) : s[i] # sep THEN <<s>>
  ELSE LET k == CHOOSE i \in 1..Len(s) : s[i] = sep /\ \A j \in 1..(i - 1) : s[j] # sep
       IN  <<SubSeq(s, 1, k - 1)>> \o split(SubSeq(s, k + 1, Len(s)), sep)

---------------------------------------------------------------------------
(* Cells and tables. *)

NaN    == [t |-> "nan",  s |-> <<>>, p |-> 0, q |-> 1]
None   == [t |-> "none", s |-> <<>>, p |-> 0, q |-> 1]
Str(s) == [t |-> "str",  s |-> s,    p |-> 0, q |-> 1]

RECURSIVE gcd(_, _)
gcd(a, b) == IF b = 0 THEN a ELSE gcd(b, a % b)

abs(a) == IF a < 0 THEN -a ELSE a

\* The number p/q (q > 0), in lowest terms.
Num(p, q) ==
  LET g == gcd(abs(p), q)
  IN  [t |-> "num", s |-> <<>>, p |-> p \div g, q |-> q \div g]

\* pd.isna / pd.notna on a scalar
isna(c)  == c.t \in {"nan", "none"}
notna(c) == ~isna(c)

DIGITS == <<"0","1","2","3","4","5","6","7","8","9">>

RECURSIVE int_str(_)
int_str(n) ==
  IF n < 0 THEN <<"-">> \o int_str(-n)
  ELSE IF n < 10 THEN <<DIGITS[n + 1]>>
  ELSE int_str(n \div 10) \o <<DIGITS[(n % 10) + 1]>>

\* str(value) / Series.astype(str) on one cell.  A number cell of an input
\* column is an integral float (150.0); NaN prints as 'nan'.
pystr(c) ==
  CASE c.t = "str"  -> c.s
    [] c.t = "nan"  -> <<"n","a","n">>
    [] c.t = "none" -> <<"N","o","n","e">>
    [] c.t = "num"  -> int_str(c.p \div c.q) \o <<".", "0">>

\* A DataFrame: the ordered column labels, the number of rows, and per label
\* the column's cells.
DataFrame(columns, n, data) == [columns |-> columns, n |-> n, data |-> data]

\* `label in df.columns`
has_column(df, label) == \E i \in 1..Len(df.columns) : df.columns[i] = label

\* pd.DataFrame()
EmptyFrame == DataFrame(<<>>, 0, <<>>)

\* result_df[label] = values: a new column is appended, an existing one is
\* replaced in place; the first column assigned to an empty frame gives the
\* frame its index (its rows).
set_column(df, label, values) ==
  IF has_column(df, label)
  THEN [df EXCEPT !.data = [k \in DOMAIN df.data |-> IF k = label THEN values ELSE df.data[k]]]
  ELSE DataFrame(Append(df.columns, label),
                 IF df.columns = <<>> THEN Len(values) ELSE df.n,
                 [k \in (DOMAIN df.data) \cup {label} |->
                    IF k = label THEN values ELSE df.data[k]])

\* result_df[label] = scalar: the scalar is broadcast over the frame's rows.
set_scalar(df, label, c) == set_column(df, label, [i \in 1..df.n |-> c])

\* df[mask]: the rows whose positions are in keep, in order.
RECURSIVE positions(_, _)
positions(n, keep) ==
  IF n = 0 THEN <<>>
  ELSE positions(n - 1, keep) \o (IF n \in keep THEN <<n>> ELSE <<>>)

filter_rows(df, keep) ==
  LET idx == positions(df.n, keep)
  IN  DataFrame(df.columns, Len(idx),
                [k \in DOMAIN df.data |-> [i \in 1..Len(idx) |-> df.data[k][idx[i]]]])

---------------------------------------------------------------------------
(* Reading an uploaded file: streamlit_app.py, load_student_list and       *)
(* extract_course_data, the first lines of both.                           *)

\* An uploaded file: its name, the table its content parses to, and what each
\* of the three delimited-text readings does with its bytes: "ok",
\* "UnicodeDecodeError", "ParserError" or "Exception" (any other error).
UploadedFile(name, df, utf16, utf8, cp1251) ==
  [name |-> name, df |-> df, utf16 |-> utf16, utf8 |-> utf8, cp1251 |-> cp1251]

\* The file-type dispatch and the encoding fallback.  status is "ok" (the
\* table was read), "unsupported" (st.error, return None) or "exception" (an
\* exception left the reading and reaches the function's except clause);
\* tried lists the readings attempted, in order.
read_uploaded_file(file) ==
  LET file_name == lower(file.name)
      done(status, tried) == [status |-> status, tried |-> tried]
  IN  IF endswith(file_name, <<".","x","l","s","x">>) \/ endswith(file_name, <<".","x","l","s">>)
      THEN done("ok", <<"excel">>)
      ELSE IF endswith(file_name, <<".","c","s","v">>)
      THEN IF file.utf16 = "ok" THEN done("ok", <<"utf-16">>)
           ELSE IF file.utf16 \notin {"UnicodeDecodeError", "ParserError"}
           THEN done("exception", <<"utf-16">>)
           ELSE IF file.utf8 = "ok" THEN done("ok", <<"utf-16", "utf-8">>)
           ELSE IF file.utf8 # "UnicodeDecodeError"
           THEN done("exception", <<"utf-16", "utf-8">>)
           ELSE IF file.cp1251 = "ok" THEN done("ok", <<"utf-16", "utf-8", "cp1251">>)
           ELSE done("exception", <<"utf-16", "utf-8", "cp1251">>)
      ELSE done("unsupported", <<>>)

---------------------------------------------------------------------------
(* load_student_list: streamlit_app.py *)

DOMAIN_MARKER == <<"@","e","d","u",".","h","s","e",".","r","u">>

FIO       == <<"F~","I~","O~">>
EMAIL     == <<"K~","o~","r~","p~","o~","r~","a~","t~","i~","v~","n~","a~","ya~"," ","p~","o~","ch~","t~","a~">>
CAMPUS    == <<"F~","i~","l~","i~","a~","l~"," ","(","k~","a~","m~","p~","u~","s~",")">>
FACULTY   == <<"F~","a~","k~","u~","l~","sf~","t~","e~","t~">>
PROGRAM   == <<"O~","b~","r~","a~","z~","o~","v~","a~","t~","e~","l~","sf~","n~","a~","ya~"," ","p~","r~","o~","g~","r~","a~","m~","m~","a~">>
VERSION   == <<"V~","e~","r~","s~","i~","ya~"," ","o~","b~","r~","a~","z~","o~","v~","a~","t~","e~","l~","sf~","n~","o~","j~"," ","p~","r~","o~","g~","r~","a~","m~","m~","y~">>
GROUP     == <<"G~","r~","u~","p~","p~","a~">>
COURSE    == <<"K~","u~","r~","s~">>
USER_DATA == <<"D~","a~","n~","n~","y~","e~"," ","o~"," ","p~","o~","l~","sf~","z~","o~","v~","a~","t~","e~","l~","e~">>

\* The canonical roster schema with each field's synonyms, in dict order.
required_columns == <<
  [target |-> FIO,     names |-> << <<"f~","i~","o~">>, <<"f~","i","o">>, <<"i~","m~","ya~">>, <<"n","a","m","e">> >>],
  [target |-> EMAIL,   names |-> << <<"a~","d~","r~","e~","s~"," ","eh~","l~","e~","k~","t~","r~","o~","n~","n~","o~","j~"," ","p~","o~","ch~","t~","y~">>, <<"k~","o~","r~","p~","o~","r~","a~","t~","i~","v~","n~","a~","ya~"," ","p~","o~","ch~","t~","a~">>, <<"e","m","a","i","l">>, <<"p~","o~","ch~","t~","a~">>, <<"e","-","m","a","i","l">> >>],
  [target |-> CAMPUS,  names |-> << <<"f~","i~","l~","i~","a~","l~">>, <<"k~","a~","m~","p~","u~","s~">>, <<"c","a","m","p","u","s">> >>],
  [target |-> FACULTY, names |-> << <<"f~","a~","k~","u~","l~","sf~","t~","e~","t~">>, <<"f","a","c","u","l","t","y">> >>],
  [target |-> PROGRAM, names |-> << <<"o~","b~","r~","a~","z~","o~","v~","a~","t~","e~","l~","sf~","n~","a~","ya~"," ","p~","r~","o~","g~","r~","a~","m~","m~","a~">>, <<"p~","r~","o~","g~","r~","a~","m~","m~","a~">>, <<"e","d","u","c","a","t","i","o","n","a","l"," ","p","r","o","g","r","a","m">> >>],
  [target |-> VERSION, names |-> << <<"v~","e~","r~","s~","i~","ya~"," ","o~","b~","r~","a~","z~","o~","v~","a~","t~","e~","l~","sf~","n~","o~","j~"," ","p~","r~","o~","g~","r~","a~","m~","m~","y~">>, <<"v~","e~","r~","s~","i~","ya~"," ","p~","r~","o~","g~","r~","a~","m~","m~","y~">>, <<"p","r","o","g","r","a","m"," ","v","e","r","s","i","o","n">>, <<"v","e","r","s","i","o","n">> >> ],
  [target |-> GROUP,   names |-> << <<"g~","r~","u~","p~","p~","a~">>, <<"g","r","o","u","p">> >>],
  [target |-> COURSE,  names |-> << <<"k~","u~","r~","s~">>, <<"c","o","u","r","s","e">> >> ] >>

\* any(possible_name in col_name for possible_name in possible_names)
matches_any(col_name, possible_names) ==
  \E k \in 1..Len(possible_names) : contains(col_name, possible_names[k])

\* find_column with the loops nested the other way: synonym by synonym, the
\* first header holding the earliest synonym that occurs at all.
find_column_by_synonym(columns, possible_names) ==
  LET df_columns_lower == [i \in 1..Len(columns) |-> strip(lower(columns[i]))]
      hit(k) == {i \in 1..Len(columns) : contains(df_columns_lower[i], possible_names[k])}
      ks == {k \in 1..Len(possible_names) : hit(k) # {}}
  IN  IF ks = {} THEN 0
      ELSE LET k == CHOOSE x \in ks : \A y \in ks : x <= y
           IN  CHOOSE i \in hit(k) : \A j \in hit(k) : i <= j

\* The inner loop over the headers for one canonical field: the position of
\* the header the field resolves to, 0 when no header matches.
find_column(columns, possible_names) ==
  LET df_columns_lower == [i \in 1..Len(columns) |-> strip(lower(columns[i]))]
      hits == {i \in 1..Len(columns) : matches_any(df_columns_lower[i], possible_names)}
  IN  IF hits = {} THEN 0 ELSE CHOOSE i \in hits : \A j \in hits : i <= j

\* found_columns: per canonical field, in schema order, the source header it
\* resolved to (only the fields that resolved).
RECURSIVE found_columns_upto(_, _)
found_columns_upto(columns, k) ==
  IF k = 0 THEN <<>>
  ELSE LET idx == find_column(columns, required_columns[k].names)
       IN  found_columns_upto(columns, k - 1) \o
           (IF idx = 0 THEN <<>>
            ELSE << [target |-> required_columns[k].target, source |-> columns[idx]] >>)

found_columns(columns) == found_columns_upto(columns, Len(required_columns))

\* The loop copying each resolved source column under its canonical name.
RECURSIVE copy_found(_, _, _)
copy_found(df, found, k) ==
  IF k = 0 THEN EmptyFrame
  ELSE LET before == copy_found(df, found, k - 1)
       IN  IF has_column(df, found[k].source)
           THEN set_column(before, found[k].target, df.data[found[k].source])
           ELSE before

\* user_data.str.split(';', expand=True): one list of parts per row; the
\* expanded frame has as many columns as the longest list, shorter rows are
\* padded with None.
parsed_user_data(df) ==
  [i \in 1..df.n |-> split(pystr(df.data[USER_DATA][i]), ";")]

parsed_width(parsed) ==
  IF parsed = <<>> THEN 0
  ELSE LET lens == {Len(parsed[i]) : i \in 1..Len(parsed)}
       IN  CHOOSE m \in lens : \A l \in lens : l <= m

parsed_column(parsed, k) ==
  [i \in 1..Len(parsed) |-> IF k <= Len(parsed[i]) THEN Str(parsed[i][k]) ELSE None]

\* The composite 'user data' column, when present and wide enough, overwrites
\* faculty, program, course level and group.
parse_user_data(df, result_df) ==
  IF ~has_column(df, USER_DATA) THEN result_df
  ELSE LET parsed == parsed_user_data(df)
       IN  IF parsed_width(parsed) >= 4
           THEN set_column(set_column(set_column(set_column(result_df,
                  FACULTY, parsed_column(parsed, 1)),
                  PROGRAM, parsed_column(parsed, 2)),
                  COURSE,  parsed_column(parsed, 3)),
                  GROUP,   parsed_column(parsed, 4))
           ELSE result_df

\* "Add missing columns with empty values", for the first k fields.
RECURSIVE add_missing_upto(_, _)
add_missing_upto(result_df, k) ==
  IF k = 0 THEN result_df
  ELSE LET before == add_missing_upto(result_df, k - 1)
       IN  IF has_column(before, required_columns[k].target) THEN before
           ELSE set_scalar(before, required_columns[k].target, Str(<<>>))

\* add_missing looping over the fields already in the frame: it adds nothing.
add_missing_skipped(result_df) == result_df

\* "Add missing columns with empty values"
add_missing(result_df) == add_missing_upto(result_df, Len(required_columns))

\* The row mask of the roster post-filter:
\* result_df['...'].astype(str).str.contains('@edu.hse.ru', na=False)
email_mask(cell) == str_contains(pystr(cell), DOMAIN_MARKER)

\* .astype(str).str.lower().str.strip()
normalize_email(cell) == Str(strip(lower(pystr(cell))))

\* "Filter only students with edu.hse.ru email", then normalize the emails.
filter_students(result_df) ==
  IF has_column(result_df, EMAIL)
  THEN LET kept == filter_rows(result_df,
                     {i \in 1..result_df.n : email_mask(result_df.data[EMAIL][i])})
       IN  set_column(kept, EMAIL,
                      [i \in 1..kept.n |-> normalize_email(kept.data[EMAIL][i])])
  ELSE result_df

\* load_student_list(uploaded_file).  returned = FALSE is `return None`.
load_student_list(file) ==
  LET read == read_uploaded_file(file)
      df == file.df
      found == found_columns(df.columns)
  IN  IF read.status # "ok"
      THEN [returned |-> FALSE, df |-> EmptyFrame, found_columns |-> <<>>, read |-> read]
      ELSE [returned |-> TRUE,
            df |-> filter_students(
                     add_missing(
                       parse_user_data(df, copy_found(df, found, Len(found))))),
            found_columns |-> found,
            read |-> read]

---------------------------------------------------------------------------
(* extract_course_data: streamlit_app.py *)

possible_email_names ==
  << <<"A~","d~","r~","e~","s~"," ","eh~","l~","e~","k~","t~","r~","o~","n~","n~","o~","j~"," ","p~","o~","ch~","t~","y~">>, <<"K~","o~","r~","p~","o~","r~","a~","t~","i~","v~","n~","a~","ya~"," ","p~","o~","ch~","t~","a~">>, <<"E","m","a","i","l">>, <<"P~","o~","ch~","t~","a~">>, <<"E","-","m","a","i","l">> >>

possible_completion_names ==
  << <<"P~","r~","o~","c~","e~","n~","t~"," ","z~","a~","v~","e~","r~","sh~","e~","n~","i~","ya~">>, <<"C","o","m","p","l","e","t","i","o","n">>, <<"P","r","o","g","r","e","s","s">>, <<"P~","r~","o~","g~","r~","e~","s~","s~">>, <<"Z~","a~","v~","e~","r~","sh~","e~","n~","i~","e~">> >>

cg_excluded_keywords == <<
  <<"t","a","k","e"," ","a","w","a","y">>, <<"sh~","p~","a~","r~","g~","a~","l~","k~","a~">>, <<"k~","o~","n~","s~","u~","l~","sf~","t~","a~","c~","i~","ya~">>, <<"o~","b~","sch~","a~","ya~"," ","i~","n~","f~","o~","r~","m~","a~","c~","i~","ya~">>, <<"p~","r~","o~","m~","o~","-","r~","o~","l~","i~","k~">>,
  <<"p~","o~","d~","d~","e~","r~","zh~","k~","a~"," ","s~","t~","u~","d~","e~","n~","t~","o~","v~">>, <<"p~","o~","ya~","s~","n~","e~","n~","i~","e~">>, <<"s~","l~","u~","ch~","a~","j~","n~","y~","j~"," ","v~","a~","r~","i~","a~","n~","t~"," ","d~","l~","ya~"," ","s~","t~","u~","d~","e~","n~","t~","o~","v~"," ","s~"," ","o~","v~","z~">>,
  <<"m~","a~","t~","e~","r~","i~","a~","l~","y~"," ","p~","o~"," ","m~","o~","d~","u~","l~","yu~">>, <<"k~","o~","p~","i~","ya~">>,
  <<"d~","e~","m~","o~","n~","s~","t~","r~","a~","c~","i~","o~","n~","n~","y~","j~"," ","v~","a~","r~","i~","a~","n~","t~">>, <<"s~","p~","e~","c~","i~","f~","i~","k~","a~","c~","i~","ya~">>, <<"d~","e~","m~","o~","-","v~","e~","r~","s~","i~","ya~">>,
  <<"p~","r~","a~","v~","i~","l~","a~"," ","p~","r~","o~","v~","e~","d~","e~","n~","i~","ya~"," ","n~","e~","z~","a~","v~","i~","s~","i~","m~","o~","g~","o~"," ","eh~","k~","z~","a~","m~","e~","n~","a~">>,
  <<"p~","o~","r~","ya~","d~","o~","k~"," ","o~","r~","g~","a~","n~","i~","z~","a~","c~","i~","i~"," ","i~"," ","p~","r~","o~","v~","e~","d~","e~","n~","i~","ya~"," ","n~","e~","z~","a~","v~","i~","s~","i~","m~","y~","h~"," ","eh~","k~","z~","a~","m~","e~","n~","o~","v~">>,
  <<"i~","n~","t~","e~","r~","a~","k~","t~","i~","v~","n~","y~","j~"," ","t~","r~","e~","n~","a~","zh~","e~","r~"," ","p~","r~","a~","v~","i~","l~"," ","n~","eh~">>, <<"p~","e~","r~","e~","s~","d~","a~","ch~","i~"," ","v~"," ","s~","e~","n~","t~","ya~","b~","r~","e~">>, <<"n~","e~","z~","r~","ya~","ch~","i~","h~"," ","i~"," ","s~","l~","a~","b~","o~","v~","i~","d~","ya~","sch~","i~","h~">>,
  <<"p~","r~","o~","e~","k~","t~","y~"," ","s~"," ","i~","s~","p~","o~","l~","sf~","z~","o~","v~","a~","n~","i~","e~"," ","t","e","i">>,
  <<"t~","r~","e~","n~","i~","r~","o~","v~","o~","ch~","n~","y~","j~"," ","t~","e~","s~","t~">>, <<"k~","l~","yu~","ch~","e~","v~","y~","e~"," ","p~","r~","i~","n~","c~","i~","p~","y~"," ","t","e","i">>, <<"b~","a~","z~","o~","v~","y~","e~"," ","v~","o~","z~","m~","o~","zh~","n~","o~","s~","t~","i~"," ","t","i","e">>,
  <<"s~","p~","e~","c~","i~","a~","l~","sf~","n~","y~","e~"," ","m~","o~","d~","u~","l~","i~"," ","t","e","i">>, <<"b~","u~","d~","u~","t~"," ","i~","d~","e~","n~","t~","i~","ch~","n~","y~","m~","i~">>,
  <<"o~","p~","r~","o~","s~">>, <<"t~","e~","s~","t~"," ","p~","o~"," ","m~","o~","d~","u~","l~","yu~">>, <<"a~","n~","k~","e~","t~","a~">>,
  <<"u","s","e","r"," ","i","n","f","o","r","m","a","t","i","o","n">>, <<"s~","t~","r~","a~","n~","a~">>, <<"u","s","e","r","_","i","d">>, <<"d~","a~","n~","n~","y~","e~"," ","o~"," ","p~","o~","l~","sf~","z~","o~","v~","a~","t~","e~","l~","e~">> >>

CG == <<"C~","G~">>

UNNAMED_PREFIX == <<"U","n","n","a","m","e","d",":">>
UNNAMED_0 == <<"U","n","n","a","m","e","d",":"," ","0">>

DONE_MARKER       == <<"V~","y~","p~","o~","l~","n~","e~","n~","o~">>
DONE_MARKER_LOWER == <<"v~","y~","p~","o~","l~","n~","e~","n~","o~">>
NOT_DONE          == <<"N~","e~"," ","v~","y~","p~","o~","l~","n~","e~","n~","o~">>

YEAR_PATTERNS == << <<"2","0","2","0">>, <<"2","0","2","1">>, <<"2","0","2","2">>, <<"2","0","2","3">>, <<"2","0","2","4">> >>

\* head(100) of a status column's values, head(20) of an unnamed column's.
STATUS_SAMPLE == 100
TIMESTAMP_SAMPLE == 20

\* The first of `names` that is a column label of df; <<>> (no str label is
\* empty here) when none is.
first_present(df, names) ==
  LET hits == {k \in 1..Len(names) : has_column(df, names[k])}
  IN  IF hits = {} THEN <<>>
      ELSE names[CHOOSE k \in hits : \A j \in hits : k <= j]

\* The labels the column scan always skips.
never_candidates(email_column) ==
  {UNNAMED_0, email_column, USER_DATA, <<"U","s","e","r"," ","i","n","f","o","r","m","a","t","i","o","n">>, <<"S~","t~","r~","a~","n~","a~">>}

\* The denylist test of the course named CG.
should_exclude(col) ==
  LET col_str == lower(strip(col))
  IN  \E k \in 1..Len(cg_excluded_keywords) : contains(col_str, cg_excluded_keywords[k])

\* examined with the denylist applied whatever the course.
examined_every_course(col, email_column, name) ==
  /\ col \notin never_candidates(email_column)
  /\ ~should_exclude(col)

\* The columns the scan goes on to examine: not a fixed skip and, for the
\* course CG, not on the denylist.
examined(col, email_column, name) ==
  /\ col \notin never_candidates(email_column)
  /\ ~(name = CG /\ should_exclude(col))

\* df[col].dropna().astype(str).head(k)
sample_values(df, col, k) ==
  LET present == positions(df.n, {i \in 1..df.n : notna(df.data[col][i])})
      strs == [i \in 1..Len(present) |-> pystr(df.data[col][present[i]])]
  IN  IF Len(strs) <= k THEN strs ELSE SubSeq(strs, 1, k)

\* DONE_MARKER in val or DONE_MARKER_LOWER in val.lower()
is_done(val) == contains(val, DONE_MARKER) \/ contains(lower(val), DONE_MARKER_LOWER)

\* any(pattern in val for pattern in [...]) and ':' in val
is_timestamp(val) ==
  /\ \E k \in 1..Len(YEAR_PATTERNS) : contains(val, YEAR_PATTERNS[k])
  /\ contains(val, <<":">>)

\* A named column with some status value that holds the done marker and whose
\* sampled values are not all exactly the not-done status.
is_completed_column(df, col) ==
  /\ ~startswith(col, UNNAMED_PREFIX) /\ Len(strip(col)) > 0
  /\ LET sample == sample_values(df, col, STATUS_SAMPLE)
     IN  /\ \E i \in 1..Len(sample) : is_done(sample[i])
         /\ ~(\A i \in 1..Len(sample) : sample[i] = NOT_DONE)

\* An unnamed column (other than the index column) with a sampled value that
\* looks like a timestamp.
is_timestamp_column(df, col) ==
  /\ ~(~startswith(col, UNNAMED_PREFIX) /\ Len(strip(col)) > 0)
  /\ startswith(col, UNNAMED_PREFIX) /\ col # UNNAMED_0
  /\ LET sample == sample_values(df, col, TIMESTAMP_SAMPLE)
     IN  \E i \in 1..Len(sample) : is_timestamp(strip(sample[i]))

\* The column scan: the labels of df, in table order, that it examines and
\* that pass the test of their kind.
scan(df, kept) ==
  LET idx == positions(Len(df.columns), {i \in 1..Len(df.columns) : df.columns[i] \in kept})
  IN  [j \in 1..Len(idx) |-> df.columns[idx[j]]]

completed_columns(df, email_column, name) ==
  scan(df, {col \in {df.columns[i] : i \in 1..Len(df.columns)} :
              examined(col, email_column, name) /\ is_completed_column(df, col)})

timestamp_columns(df, email_column, name) ==
  scan(df, {col \in {df.columns[i] : i \in 1..Len(df.columns)} :
              examined(col, email_column, name) /\ is_timestamp_column(df, col)})

\* excluded_count and included_count of the CG denylist pass.
excluded_count(df, email_column, name) ==
  IF name # CG THEN 0
  ELSE Cardinality({i \in 1..Len(df.columns) :
         df.columns[i] \notin never_candidates(email_column) /\ should_exclude(df.columns[i])})

included_count(df, email_column, name) ==
  IF name # CG THEN 0
  ELSE Cardinality({i \in 1..Len(df.columns) :
         df.columns[i] \notin never_candidates(email_column) /\ ~should_exclude(df.columns[i])})

\* pd.isna(email_val) or '@edu.hse.ru' not in str(email_val).lower()
skip_row(email_val) ==
  isna(email_val) \/ ~contains(lower(pystr(email_val)), DOMAIN_MARKER)

\* (completed_tasks / total_tasks * 100) if total_tasks > 0 else 0
percentage(completed_tasks, total_tasks) ==
  IF total_tasks > 0 THEN Num(completed_tasks * 100, total_tasks) ELSE Num(0, 1)

\* The cell as the row loops see it: '' for a missing value, else the
\* stripped text.
cell_text(cell) == IF isna(cell) THEN <<>> ELSE strip(pystr(cell))

\* timestamp_row with every non-empty cell counted as a completed task.
timestamp_row_any_value(df, i, email_column, ts_columns) ==
  LET total_tasks == Len(ts_columns)
      completed_tasks ==
        Cardinality({k \in 1..Len(ts_columns) :
          LET val_str == cell_text(df.data[ts_columns[k]][i])
          IN  val_str # <<>> /\ val_str # <<"n","a","n">>})
  IN  [email |-> strip(lower(pystr(df.data[email_column][i]))),
       percentage |-> percentage(completed_tasks, total_tasks),
       row |-> i]

\* One row of the timestamp strategy.
timestamp_row(df, i, email_column, ts_columns) ==
  LET total_tasks == Len(ts_columns)
      completed_tasks ==
        Cardinality({k \in 1..Len(ts_columns) :
          LET val_str == cell_text(df.data[ts_columns[k]][i])
          IN  val_str # <<>> /\ val_str # <<"n","a","n">> /\ is_timestamp(val_str)})
  IN  [email |-> strip(lower(pystr(df.data[email_column][i]))),
       percentage |-> percentage(completed_tasks, total_tasks),
       row |-> i]

\* status_row with every candidate column in the denominator.
status_row_all_columns(df, i, email_column, done_columns) ==
  LET attempted == {k \in 1..Len(done_columns) :
                      LET val == cell_text(df.data[done_columns[k]][i])
                      IN  val # <<>> /\ val # <<"n","a","n">>}
      completed_tasks ==
        Cardinality({k \in attempted : is_done(cell_text(df.data[done_columns[k]][i]))})
  IN  [email |-> strip(lower(pystr(df.data[email_column][i]))),
       percentage |-> percentage(completed_tasks, Len(done_columns)),
       row |-> i]

\* One row of the status-label strategy.
status_row(df, i, email_column, done_columns) ==
  LET attempted == {k \in 1..Len(done_columns) :
                      LET val == cell_text(df.data[done_columns[k]][i])
                      IN  val # <<>> /\ val # <<"n","a","n">>}
      total_tasks == Cardinality(attempted)
      completed_tasks ==
        Cardinality({k \in attempted : is_done(cell_text(df.data[done_columns[k]][i]))})
  IN  [email |-> strip(lower(pystr(df.data[email_column][i]))),
       percentage |-> percentage(completed_tasks, total_tasks),
       row |-> i]

\* completion_data of either row loop: one record per row that is not skipped,
\* computed by the loop of the strategy that runs.
completion_data(df, email_column, columns, strategy) ==
  LET idx == positions(df.n, {i \in 1..df.n : ~skip_row(df.data[email_column][i])})
  IN  [j \in 1..Len(idx) |->
         IF strategy = "timestamp" THEN timestamp_row(df, idx[j], email_column, columns)
         ELSE status_row(df, idx[j], email_column, columns)]

\* The direct-percentage fallback: the two columns as they are, the email
\* normalized, filtered by Series.str.contains('@edu.hse.ru', na=False).
direct_data(df, email_column, completion_column) ==
  LET emails == [i \in 1..df.n |-> strip(lower(pystr(df.data[email_column][i])))]
      kept == positions(df.n, {i \in 1..df.n : str_contains(emails[i], DOMAIN_MARKER)})
  IN  [j \in 1..Len(kept) |->
         [email |-> emails[kept[j]], percentage |-> df.data[completion_column][kept[j]],
          row |-> kept[j]]]

\* choose_strategy with the two column strategies in the other order.
choose_strategy_status_first(ts_columns, done_columns) ==
  IF done_columns # <<>> THEN "status"
  ELSE IF ts_columns # <<>> THEN "timestamp"
  ELSE "direct"

\* choose_strategy with a plain else in place of the elif: no fallback.
choose_strategy_no_fallback(ts_columns, done_columns) ==
  IF ts_columns # <<>> THEN "timestamp" ELSE "status"

\* Which strategy runs, from the candidate lists: the if / elif / fallback.
choose_strategy(ts_columns, done_columns) ==
  IF ts_columns # <<>> THEN "timestamp"
  ELSE IF done_columns # <<>> THEN "status"
  ELSE "direct"

\* extract_course_data(uploaded_file, course_name).  returned = FALSE is
\* `return None`; rows are the returned table's rows (email, percentage, and
\* the position of the row of df each was computed from);
\* strategy names the branch that ran ("none": the function left before the
\* strategies); message is the kind of the st.* message the chosen branch ends
\* with ("none": it ends with no message).
extract_course_data(file, name) ==
  LET read == read_uploaded_file(file)
      df == file.df
      email_column == first_present(df, possible_email_names)
      fail(strategy, message, ts, done) ==
        [returned |-> FALSE, rows |-> <<>>, strategy |-> strategy, message |-> message,
         timestamp_columns |-> ts, completed_columns |-> done, read |-> read]
      ok(strategy, rows, message, ts, done) ==
        [returned |-> TRUE, rows |-> rows, strategy |-> strategy, message |-> message,
         timestamp_columns |-> ts, completed_columns |-> done, read |-> read]
  IN  IF read.status # "ok" THEN fail("none", "error", <<>>, <<>>)
      ELSE IF email_column = <<>> THEN fail("none", "error", <<>>, <<>>)
      ELSE
        LET ts == timestamp_columns(df, email_column, name)
            done == completed_columns(df, email_column, name)
            strategy == choose_strategy(ts, done)
        IN  CASE strategy = "timestamp" ->
                   LET data == completion_data(df, email_column, ts, strategy)
                   IN  IF data # <<>> THEN ok(strategy, data, "success", ts, done)
                       ELSE fail(strategy, "warning", ts, done)
              [] strategy = "status" ->
                   LET data == completion_data(df, email_column, done, strategy)
                   IN  IF data # <<>> THEN ok(strategy, data, "success", ts, done)
                       ELSE fail(strategy, "warning", ts, done)
              [] OTHER ->
                   LET completion_column == first_present(df, possible_completion_names)
                   IN  IF completion_column = <<>> THEN fail("direct", "error", ts, done)
                       ELSE ok("direct", direct_data(df, email_column, completion_column),
                               "none", ts, done)


---------------------------------------------------------------------------
(* consolidate_data: streamlit_app.py.  The roster is left-joined with the  *)
(* table of each course on the email column, then deduplicated by email.    *)

\* f'Procent_{course_name}', the label of a course's percentage column.
percent_column(name) == <<"P~","r~","o~","c~","e~","n~","t~","_">> \o name

\* The table a successful extract_course_data returns: the email column and
\* the course's percentage column, one row per record.
course_frame(rows, name) ==
  DataFrame(<<EMAIL, percent_column(name)>>, Len(rows),
            [k \in {EMAIL, percent_column(name)} |->
               [j \in 1..Len(rows) |->
                  IF k = EMAIL THEN Str(rows[j].email) ELSE rows[j].percentage]])

\* An entry of course_data_list: a table, or None.
Table(df) == [none |-> FALSE, df |-> df]
NoTable   == [none |-> TRUE, df |-> EmptyFrame]

\* The default suffixes pd.merge gives to a label both sides have.
SUFFIX_X == <<"_","x">>
SUFFIX_Y == <<"_","y">>

\* The row pairs of a left join: for each left row, in order, one pair per
\* right row with the same key, in the right table's order, or one pair with
\* no right row (0) when there is none.
RECURSIVE left_pairs(_, _, _, _)
left_pairs(left, right, on, i) ==
  IF i = 0 THEN <<>>
  ELSE LET matches == positions(right.n,
                        {j \in 1..right.n : right.data[on][j] = left.data[on][i]})
       IN  left_pairs(left, right, on, i - 1) \o
           (IF matches = <<>> THEN << <<i, 0>> >>
            ELSE [m \in 1..Len(matches) |-> <<i, matches[m]>>])

\* The row pairs of how='outer': the right rows no left row matched follow.
merge_pairs_outer(left, right, on) ==
  LET unmatched == positions(right.n,
                     {j \in 1..right.n :
                        \A i \in 1..left.n : left.data[on][i] # right.data[on][j]})
  IN  left_pairs(left, right, on, left.n) \o
      [m \in 1..Len(unmatched) |-> <<0, unmatched[m]>>]

\* The row pairs of how='left'.
merge_pairs(left, right, on) == left_pairs(left, right, on, left.n)

\* pd.merge(left, right, on=on, how='left').  A label other than the key
\* that both tables have comes out twice, suffixed _x and _y.
merge(left, right, on) ==
  LET overlap(c) == c # on /\ has_column(left, c) /\ has_column(right, c)
      right_idx == positions(Len(right.columns),
                     {k \in 1..Len(right.columns) : right.columns[k] # on})
      left_out  == [k \in 1..Len(left.columns) |->
                      [label |-> IF overlap(left.columns[k])
                                 THEN left.columns[k] \o SUFFIX_X ELSE left.columns[k],
                       side |-> "left", from |-> left.columns[k]]]
      right_out == [k \in 1..Len(right_idx) |->
                      [label |-> IF overlap(right.columns[right_idx[k]])
                                 THEN right.columns[right_idx[k]] \o SUFFIX_Y
                                 ELSE right.columns[right_idx[k]],
                       side |-> "right", from |-> right.columns[right_idx[k]]]]
      out   == left_out \o right_out
      pairs == merge_pairs(left, right, on)
      col(k) == [r \in 1..Len(pairs) |->
                   IF out[k].side = "left"
                   THEN IF pairs[r][1] # 0 THEN left.data[out[k].from][pairs[r][1]]
                        ELSE IF out[k].from = on THEN right.data[on][pairs[r][2]]
                        ELSE NaN
                   ELSE IF pairs[r][2] = 0 THEN NaN
                   ELSE right.data[out[k].from][pairs[r][2]]]
  IN  DataFrame([k \in 1..Len(out) |-> out[k].label], Len(pairs),
                [label \in {out[k].label : k \in 1..Len(out)} |->
                   col(CHOOSE k \in 1..Len(out) : out[k].label = label)])

\* Series.fillna(0.0), as consolidate_course_data.py fills the column.
fillna_zero(values, na) ==
  [i \in 1..Len(values) |-> IF notna(values[i]) THEN values[i] ELSE Num(0, 1)]

\* Series.where(pd.notna(series), None): a missing value is replaced by the
\* replacement the pandas build makes of None (None itself, or NaN again).
where_notna(values, na) ==
  [i \in 1..Len(values) |-> IF notna(values[i]) THEN values[i] ELSE na]

\* The merge loop over zip(course_data_list, course_names), first k pairs.
\* raised: an exception left the loop (a label that is not there).
RECURSIVE merge_courses(_, _, _, _, _)
merge_courses(student_list, course_data_list, course_names, k, na) ==
  IF k = 0 THEN [raised |-> FALSE, df |-> student_list]
  ELSE LET before == merge_courses(student_list, course_data_list, course_names, k - 1, na)
           course_data == course_data_list[k]
           label == percent_column(course_names[k])
       IN  IF before.raised \/ course_data.none THEN before
           ELSE IF ~has_column(before.df, EMAIL) \/ ~has_column(course_data.df, EMAIL)
           THEN [raised |-> TRUE, df |-> before.df]
           ELSE LET merged == merge(before.df, course_data.df, EMAIL)
                IN  IF ~has_column(merged, label) THEN [raised |-> TRUE, df |-> merged]
                    ELSE [raised |-> FALSE,
                          df |-> set_column(merged, label,
                                            where_notna(merged.data[label], na))]

\* drop_duplicates(subset=[label], keep='last')
drop_duplicates_keep_last(df, label) ==
  filter_rows(df, {i \in 1..df.n :
                     \A j \in (i + 1)..df.n : df.data[label][j] # df.data[label][i]})

\* drop_duplicates(subset=[label], keep='first')
drop_duplicates(df, label) ==
  filter_rows(df, {i \in 1..df.n :
                     \A j \in 1..(i - 1) : df.data[label][j] # df.data[label][i]})

\* min(len(a), len(b)): how many pairs zip yields
zip_len(a, b) == IF Len(a) <= Len(b) THEN Len(a) ELSE Len(b)

\* consolidate_data(student_list, course_data_list, course_names).
\* returned = FALSE is the except clause's `return None`.
consolidate_data(student_list, course_data_list, course_names, na) ==
  LET merged == merge_courses(student_list, course_data_list, course_names,
                              zip_len(course_data_list, course_names), na)
  IN  IF merged.raised \/ ~has_column(merged.df, EMAIL)
      THEN [returned |-> FALSE, df |-> EmptyFrame]
      ELSE [returned |-> TRUE, df |-> drop_duplicates(merged.df, EMAIL)]

---------------------------------------------------------------------------
(* upload_to_supabase: streamlit_app.py.  The remote table is a sequence of *)
(* records; a record's id is its position.  A record maps each column key   *)
(* to a cell (None is SQL null).  created_at, a timestamp no step reads, is *)
(* left out.                                                                *)

DB_FIO     == <<"f~","i~","o~">>
DB_EMAIL   == <<"k~","o~","r~","p~","o~","r~","a~","t~","i~","v~","n~","a~","ya~","_","p~","o~","ch~","t~","a~">>
DB_CAMPUS  == <<"f~","i~","l~","i~","a~","l~","_","k~","a~","m~","p~","u~","s~">>
DB_FACULTY == <<"f~","a~","k~","u~","l~","sf~","t~","e~","t~">>
DB_PROGRAM == <<"o~","b~","r~","a~","z~","o~","v~","a~","t~","e~","l~","sf~","n~","a~","ya~","_","p~","r~","o~","g~","r~","a~","m~","m~","a~">>
DB_VERSION == <<"v~","e~","r~","s~","i~","ya~","_","o~","b~","r~","a~","z~","o~","v~","a~","t~","e~","l~","sf~","n~","o~","j~","_","p~","r~","o~","g~","r~","a~","m~","m~","y~">>
DB_GROUP   == <<"g~","r~","u~","p~","p~","a~">>
DB_COURSE  == <<"k~","u~","r~","s~">>
DB_CG      == <<"p~","r~","o~","c~","e~","n~","t~","_","c~","g~">>
DB_PYTHON  == <<"p~","r~","o~","c~","e~","n~","t~","_","p~","i~","t~","o~","n~">>
DB_ANDAN   == <<"p~","r~","o~","c~","e~","n~","t~","_","a~","n~","d~","a~","n~">>

UNKNOWN   == <<"N~","e~","i~","z~","v~","e~","s~","t~","n~","o~">>
ALT_EMAIL == <<"A~","d~","r~","e~","s~"," ","eh~","l~","e~","k~","t~","r~","o~","n~","n~","o~","j~"," ","p~","o~","ch~","t~","y~">>
PITON     == <<"P~","i~","t~","o~","n~">>
ANDAN     == <<"A~","n~","d~","a~","n~">>

\* The keys of new_record, in order, each with the table column it is read
\* from and the way its value is made.
record_fields == <<
  [key |-> DB_FIO,     column |-> FIO,                   kind |-> "name"],
  [key |-> DB_EMAIL,   column |-> EMAIL,                 kind |-> "email"],
  [key |-> DB_CAMPUS,  column |-> CAMPUS,                kind |-> "text"],
  [key |-> DB_FACULTY, column |-> FACULTY,               kind |-> "text"],
  [key |-> DB_PROGRAM, column |-> PROGRAM,               kind |-> "text"],
  [key |-> DB_VERSION, column |-> VERSION,               kind |-> "text"],
  [key |-> DB_GROUP,   column |-> GROUP,                 kind |-> "text"],
  [key |-> DB_COURSE,  column |-> COURSE,                kind |-> "text"],
  [key |-> DB_CG,      column |-> percent_column(CG),    kind |-> "percent"],
  [key |-> DB_PYTHON,  column |-> percent_column(PITON), kind |-> "percent"],
  [key |-> DB_ANDAN,   column |-> percent_column(ANDAN), kind |-> "percent"] >>

record_keys == {record_fields[k].key : k \in 1..Len(record_fields)}

field_of(key) == record_fields[CHOOSE k \in 1..Len(record_fields) : record_fields[k].key = key]

\* row.get(label): the row's cell, None when the table has no such column.
row_get(df, i, label) == IF has_column(df, label) THEN df.data[label][i] ELSE None

\* str(row.get(label, '')).strip().lower()
row_email_under(df, i, label) ==
  IF has_column(df, label) THEN strip(lower(pystr(df.data[label][i]))) ELSE <<>>

\* The row's email: the roster's column, else the alternative label.
row_email(df, i) ==
  IF row_email_under(df, i, EMAIL) # <<>> THEN row_email_under(df, i, EMAIL)
  ELSE row_email_under(df, i, ALT_EMAIL)

\* "not email or '@edu.hse.ru' not in email": the row is passed over.
skipped_email(email) == email = <<>> \/ ~contains(email, DOMAIN_MARKER)

\* float(value) of a number cell; a str cell converts when it is a numeral.
is_numeral(s) == s # <<>> /\ \A i \in 1..Len(s) : \E d \in 1..10 : DIGITS[d] = s[i]

RECURSIVE numeral_value(_)
numeral_value(s) ==
  IF s = <<>> THEN 0
  ELSE 10 * numeral_value(SubSeq(s, 1, Len(s) - 1))
       + (CHOOSE d \in 0..9 : DIGITS[d + 1] = s[Len(s)])

float_raises(c) == c.t = "str" /\ ~is_numeral(strip(c.s))

float(c) == IF c.t = "str" THEN Num(numeral_value(strip(c.s)), 1) ELSE c

\* One value of new_record, from the row's cell c.
record_value(kind, c, email) ==
  CASE kind = "email" -> Str(email)
    [] kind = "name" ->
         IF notna(c) /\ strip(pystr(c)) # <<>> THEN Str(strip(pystr(c))) ELSE Str(UNKNOWN)
    [] kind = "text" ->
         IF notna(c) /\ strip(pystr(c)) # <<>> THEN Str(pystr(c)) ELSE None
    [] kind = "percent" ->
         IF notna(c) /\ c # Str(<<>>) THEN float(c) ELSE None

\* new_record of row i.
new_record(df, i) ==
  [key \in record_keys |->
     record_value(field_of(key).kind, row_get(df, i, field_of(key).column), row_email(df, i))]

\* Building new_record raises: a percentage cell float() cannot convert.
new_record_raises(df, i) ==
  \E k \in 1..Len(record_fields) :
    LET c == row_get(df, i, record_fields[k].column)
    IN  record_fields[k].kind = "percent" /\ notna(c) /\ c # Str(<<>>) /\ float_raises(c)

\* existing_data: the email a stored record is filed under.
stored_email(record) == strip(lower(pystr(record[DB_EMAIL])))

\* existing_data[email]: the id of the record filed under email (the last
\* one selected with that email), 0 when there is none.
existing_id(store, email) ==
  LET ids == {id \in 1..Len(store) : stored_email(store[id]) = email}
  IN  IF ids = {} THEN 0 ELSE CHOOSE id \in ids : \A other \in ids : other <= id

\* Building existing_data raises: .lower() of a null email.
existing_data_raises(store) == \E id \in 1..Len(store) : store[id][DB_EMAIL].t # "str"

\* The comparison of one key of new_record with the stored record: a text
\* key by its trimmed text, a percentage within the tolerance of 0.01.
value_differs(kind, value, existing_value) ==
  IF kind = "percent"
  THEN IF value = None /\ existing_value = None THEN FALSE
       ELSE IF value = None \/ existing_value = None THEN TRUE
       ELSE abs(existing_value.p * value.q - value.p * existing_value.q) * 100
              > existing_value.q * value.q
  ELSE LET existing_str == IF existing_value = None THEN None
                           ELSE Str(strip(pystr(existing_value)))
           new_str == IF value = None THEN None ELSE Str(strip(pystr(value)))
       IN  existing_str # new_str

\* needs_update with every existing record taken as changed.
needs_update_always(record, existing_record) == TRUE

\* needs_update: some key other than the email differs.
needs_update(record, existing_record) ==
  \E key \in record_keys \ {DB_EMAIL} :
    value_differs(field_of(key).kind, record[key], existing_record[key])

\* One turn of the loop over data_df.iterrows(): row i, after the rows
\* before it.
analyse_row(before, store, data_df, i) ==
  LET email == row_email(data_df, i)
  IN  IF before.raised \/ skipped_email(email) \/ email \in before.processed_emails
      THEN before
      ELSE IF new_record_raises(data_df, i)
      THEN [before EXCEPT !.raised = TRUE, !.processed_emails = @ \cup {email}]
      ELSE CHOOSE after \in
             {[processed_emails |-> before.processed_emails \cup {email},
               records_to_insert |->
                 before.records_to_insert \o
                 (IF id = 0 THEN <<record>> ELSE <<>>),
               records_to_update |->
                 before.records_to_update \o
                 (IF id # 0 /\ needs_update(record, store[id])
                  THEN << [id |-> id, record |-> record] >> ELSE <<>>),
               unchanged_count |->
                 before.unchanged_count +
                 (IF id # 0 /\ ~needs_update(record, store[id]) THEN 1 ELSE 0),
               rows |-> Append(before.rows,
                          [row |-> i, email |-> email, record |-> record, id |-> id,
                           class |-> IF id = 0 THEN "insert"
                                     ELSE IF needs_update(record, store[id]) THEN "update"
                                     ELSE "unchanged"]),
               raised |-> FALSE] :
                record \in {new_record(data_df, i)}, id \in {existing_id(store, email)}} : TRUE

\* The turns of the loop for the rows lo..hi, in order, after the rows before
\* them.
RECURSIVE analyse_rows(_, _, _, _, _)
analyse_rows(before, store, data_df, lo, hi) ==
  IF lo = hi THEN analyse_row(before, store, data_df, lo)
  ELSE CHOOSE after \in
         {analyse_rows(first_half, store, data_df, ((lo + hi) \div 2) + 1, hi) :
            first_half \in {analyse_rows(before, store, data_df, lo, (lo + hi) \div 2)}} :
         TRUE

\* The loop over data_df.iterrows(), first i rows: the emails seen, the
\* records to insert, the records to update (with the id of the stored
\* record), the count of unchanged ones; rows lists, per row that was not
\* passed over, its position, email, new_record and class.  raised: an
\* exception left the loop.
analyse(store, data_df, i) ==
  IF i = 0
  THEN [processed_emails |-> {}, records_to_insert |-> <<>>, records_to_update |-> <<>>,
        unchanged_count |-> 0, rows |-> <<>>, raised |-> FALSE]
  ELSE analyse_rows([processed_emails |-> {}, records_to_insert |-> <<>>,
                     records_to_update |-> <<>>, unchanged_count |-> 0, rows |-> <<>>,
                     raised |-> FALSE],
                    store, data_df, 1, i)

\* batch_size=200, the default of upload_to_supabase
batch_size == 200

\* How many batches range(0, n, batch_size) yields.
batches(n) == (n + batch_size - 1) \div batch_size

\* records[i:batch_end] of batch b (from 1).
batch_data(records, b) ==
  SubSeq(records, (b - 1) * batch_size + 1,
         IF b * batch_size <= Len(records) THEN b * batch_size ELSE Len(records))

\* What the remote table may answer to the insert of a batch: it takes the
\* batch, or the request raises with a row-level-security error, a
\* duplicate-key error or any other error.
INSERT_OUTCOMES == {"ok", "rls", "duplicate", "other"}

\* One request as the remote table saw it.
Request(kind, id, records, outcome) ==
  [kind |-> kind, id |-> id, records |-> records, outcome |-> outcome]

\* An st.error message, with the position in requests of the request whose
\* failure it reports (0: it reports no request).
Error(request) == [level |-> "error", request |-> request]

\* The individual inserts after a duplicate-key error: record by record, the
\* ones the table takes (accepted) are stored, the errors of the others pass.
RECURSIVE insert_individually(_, _, _, _)
insert_individually(state, batch, accepted, k) ==
  IF k = 0 THEN state
  ELSE CHOOSE after \in
         {IF k \in accepted
          THEN [before EXCEPT !.store = Append(@, batch[k]),
                              !.requests = Append(@, Request("insert", 0, <<batch[k]>>, "ok"))]
          ELSE [before EXCEPT
                  !.requests = Append(@, Request("insert", 0, <<batch[k]>>, "error"))] :
            before \in {insert_individually(state, batch, accepted, k - 1)}} : TRUE

\* One insert batch, after the batches before it.
insert_batch(before, batch, outcome, accepted) ==
  IF ~before.returned THEN before
  ELSE CASE outcome = "ok" ->
              [before EXCEPT !.store = @ \o batch,
                             !.requests = Append(@, Request("insert", 0, batch, "ok"))]
         [] outcome = "rls" ->
              [before EXCEPT !.requests = Append(@, Request("insert", 0, batch, "error")),
                             !.messages = @ \o << Error(Len(before.requests) + 1),
                                                  Error(Len(before.requests) + 1) >>]
         [] outcome = "duplicate" ->
              insert_individually(
                [before EXCEPT !.requests = Append(@, Request("insert", 0, batch, "error")),
                               !.messages = @ \o << Error(Len(before.requests) + 1),
                                                    Error(Len(before.requests) + 1) >>],
                batch, accepted, Len(batch))
         [] OTHER ->
              [before EXCEPT !.requests = Append(@, Request("insert", 0, batch, "error")),
                             !.messages = Append(@, Error(Len(before.requests) + 1)),
                             !.returned = FALSE]

\* The loop over the batches of records_to_insert, first b batches.
\* returned = FALSE: the loop left the function with `return False`.
RECURSIVE insert_batches(_, _, _, _)
insert_batches(store, records, faults, b) ==
  IF b = 0 THEN [store |-> store, requests |-> <<>>, messages |-> <<>>, returned |-> TRUE]
  ELSE CHOOSE after \in
         {insert_batch(before, batch, faults.insert[b], faults.accepted) :
            before \in {insert_batches(store, records, faults, b - 1)},
            batch \in {batch_data(records, b)}} : TRUE

\* update(record).eq('id', id): every key of the record is written, a None
\* as null.
updated_record(stored, record) == [key \in DOMAIN stored |-> record[key]]

\* One update request, after the ones before it.
apply_update(before, id, record, raises) ==
  IF ~before.returned THEN before
  ELSE IF raises
  THEN [before EXCEPT !.requests = Append(@, Request("update", id, <<record>>, "error")),
                      !.messages = Append(@, Error(Len(before.requests) + 1)),
                      !.returned = FALSE]
  ELSE [before EXCEPT !.store = [@ EXCEPT ![id] = updated_record(@, record)],
                      !.requests = Append(@, Request("update", id, <<record>>, "ok"))]

\* The loop over records_to_update, first k records; the request of record
\* faults.update (0: none) raises.
RECURSIVE apply_updates(_, _, _, _)
apply_updates(state, records, faults, k) ==
  IF k = 0 THEN state
  ELSE CHOOSE after \in
         {apply_update(before, records[k].id, records[k].record, faults.update = k) :
            before \in {apply_updates(state, records, faults, k - 1)}} : TRUE

\* What the remote table does during one call: whether the select raises,
\* the outcome of each insert batch, the records taken one by one after a
\* duplicate-key error, and which update raises.
Faults(select, insert, accepted, update) ==
  [select |-> select, insert |-> insert, accepted |-> accepted, update |-> update]

\* The requests of upload_to_supabase once the analysis loop made its plan.
upload_plan(store, plan, faults) ==
  IF plan.raised
  THEN [returned |-> FALSE, store |-> store, requests |-> <<>>, messages |-> << Error(0) >>,
        plan |-> plan, store_before |-> store, faults |-> faults]
  ELSE IF plan.records_to_insert = <<>> /\ plan.records_to_update = <<>>
  THEN [returned |-> TRUE, store |-> store, requests |-> <<>>, messages |-> <<>>,
        plan |-> plan, store_before |-> store, faults |-> faults]
  ELSE CHOOSE done \in
         {[returned |-> updated.returned, store |-> updated.store,
           requests |-> updated.requests, messages |-> updated.messages, plan |-> plan,
           store_before |-> store, faults |-> faults] :
            updated \in
              {apply_updates(inserted, plan.records_to_update, faults,
                             Len(plan.records_to_update)) :
                 inserted \in {insert_batches(store, plan.records_to_insert, faults,
                                              batches(Len(plan.records_to_insert)))}}} : TRUE

\* upload_to_supabase(supabase, data_df).  returned is the function's result;
\* store is the remote table afterwards; requests are the inserts and updates
\* it made, in order; messages are its st.error messages; plan is what the
\* analysis loop classified.
upload_to_supabase(store, data_df, faults) ==
  IF faults.select = "error" \/ existing_data_raises(store)
  THEN [returned |-> FALSE, store |-> store, requests |-> <<>>, messages |-> << Error(0) >>,
        plan |-> analyse(store, data_df, 0),
        store_before |-> store, faults |-> faults]
  ELSE CHOOSE done \in
         {upload_plan(store, plan, faults) : plan \in {analyse(store, data_df, data_df.n)}} :
         TRUE
---------------------------------------------------------------------------
(* upload_students_to_supabase: separated_db_functions.py.  The remote      *)
(* table 'students' is a sequence of records, unique in the email key.  The *)
(* function is a process: one step builds records_for_upsert, then one step *)
(* per upsert request, its position kept in the variable upsert.            *)

\* The keys of student_record, in the order of the dict literal.
student_fields == <<
  [key |-> DB_EMAIL,   column |-> EMAIL,   kind |-> "email"],
  [key |-> DB_FIO,     column |-> FIO,     kind |-> "name"],
  [key |-> DB_CAMPUS,  column |-> CAMPUS,  kind |-> "text"],
  [key |-> DB_FACULTY, column |-> FACULTY, kind |-> "text"],
  [key |-> DB_PROGRAM, column |-> PROGRAM, kind |-> "text"],
  [key |-> DB_VERSION, column |-> VERSION, kind |-> "text"],
  [key |-> DB_GROUP,   column |-> GROUP,   kind |-> "text"],
  [key |-> DB_COURSE,  column |-> COURSE,  kind |-> "text"] >>

student_keys == {student_fields[k].key : k \in 1..Len(student_fields)}

student_field_of(key) ==
  student_fields[CHOOSE k \in 1..Len(student_fields) : student_fields[k].key = key]

\* str(row.get(EMAIL, '')).strip().lower()
student_email(df, i) ==
  IF has_column(df, EMAIL) THEN lower(strip(pystr(df.data[EMAIL][i]))) ELSE <<>>

\* One value of student_record.  The name is str(cell).strip() or the
\* default, with no test for a missing cell; a text key is null when the cell
\* is missing or blank.
student_value(kind, present, c, email) ==
  CASE kind = "email" -> Str(email)
    [] kind = "name" ->
         IF ~present THEN Str(UNKNOWN)
         ELSE IF strip(pystr(c)) # <<>> THEN Str(strip(pystr(c))) ELSE Str(UNKNOWN)
    [] kind = "text" ->
         IF present /\ notna(c) /\ strip(pystr(c)) # <<>> THEN Str(pystr(c)) ELSE None

student_record(df, i) ==
  [key \in student_keys |->
     student_value(student_field_of(key).kind,
                   has_column(df, student_field_of(key).column),
                   row_get(df, i, student_field_of(key).column),
                   student_email(df, i))]

\* Row i gives a record with no set of processed emails kept: its email
\* passes the test.
gives_record_every_row(emails, i) == ~skipped_email(emails[i])

\* Row i gives a record: its email passes the test and no earlier row has
\* the same email (processed_emails).
gives_record(emails, i) ==
  /\ ~skipped_email(emails[i])
  /\ \A j \in 1..(i - 1) : emails[j] # emails[i]

\* records_for_upsert, in row order.
records_for_upsert(df) ==
  CHOOSE records \in
    {[r \in 1..Len(kept) |-> student_record(df, kept[r])] :
       kept \in {SelectSeq([i \in 1..df.n |-> i], LAMBDA i : gives_record(emails, i)) :
                   emails \in {[i \in 1..df.n |-> student_email(df, i)]}}} : TRUE

upsert_batch_size == 200

\* batch = records_for_upsert[i:i + batch_size], i counted from 0.
upsert_slice(records, i) ==
  SubSeq(records, i + 1,
         IF i + upsert_batch_size < Len(records) THEN i + upsert_batch_size ELSE Len(records))

\* batch_num = (i // batch_size) + 1
batch_num(i) == (i \div upsert_batch_size) + 1

\* What the remote table holds after upsert(batch, on_conflict=email): a
\* record with a stored email replaces the stored record in place, any other
\* record is appended.  The emails of one batch are distinct.
upsert_rows(table, batch) ==
  LET stored == {table[id][DB_EMAIL] : id \in 1..Len(table)}
      sent == {batch[r][DB_EMAIL] : r \in 1..Len(batch)}
      record_of(email) == batch[CHOOSE r \in 1..Len(batch) : batch[r][DB_EMAIL] = email]
  IN  [id \in 1..Len(table) |->
         IF table[id][DB_EMAIL] \in sent THEN record_of(table[id][DB_EMAIL]) ELSE table[id]]
      \o SelectSeq(batch, LAMBDA record : record[DB_EMAIL] \notin stored)

\* The patterns of the retry test of the except branch: the error is transient
\* when any pattern is in error_str.lower().
TRANSIENT_PATTERNS == << <<"c","o","n","n","e","c","t","i","o","n">>, <<"t","i","m","e","o","u","t">>, <<"s","s","l">>, <<"e","o","f">> >>

\* The retry test with every error taken as transient.
is_transient_any(error_str) == TRUE

is_transient(error_str) ==
  \E k \in 1..Len(TRANSIENT_PATTERNS) : contains(lower(error_str), TRANSIENT_PATTERNS[k])

\* The ways an upsert request ends: it succeeds, or it raises an exception of
\* some text; after a lost connection the server may have committed the batch
\* all the same.
Raised(text, committed) == [ok |-> FALSE, text |-> text, committed |-> committed]

Succeeded == [ok |-> TRUE, text |-> <<>>, committed |-> TRUE]

UPSERT_OUTCOMES ==
  { Succeeded,
    Raised(<<"C","o","n","n","e","c","t","i","o","n"," ","r","e","s","e","t">>, FALSE),
    Raised(<<"C","o","n","n","e","c","t","i","o","n"," ","r","e","s","e","t">>, TRUE),
    Raised(<<"T","h","e"," ","r","e","a","d"," ","o","p","e","r","a","t","i","o","n"," ","t","i","m","e","d"," ","o","u","t">>, FALSE),
    Raised(<<"d","u","p","l","i","c","a","t","e"," ","k","e","y">>, FALSE) }

\* One request sent to the table 'students'.
Upsert(i, attempt, batch, outcome) ==
  [i |-> i, batch_num |-> batch_num(i), attempt |-> attempt,
   first |-> batch[1][DB_EMAIL], size |-> Len(batch), outcome |-> outcome]

\* The position of the call: pc is "idle", "upsert" (before the request of the
\* batch at i), "retry" (after time.sleep(2)) or "done" (returned).
UpsertState(pc, records, i, requests, returned, before) ==
  [pc |-> pc, records |-> records, i |-> i, requests |-> requests,
   returned |-> returned, before |-> before]

NoUpsert == UpsertState("idle", <<>>, 0, <<>>, FALSE, <<>>)

\* The loop goes on to the next i of range(0, len, batch_size), or the
\* function returns True after the last batch.
next_batch(state, request) ==
  IF state.i + upsert_batch_size < Len(state.records)
  THEN UpsertState("upsert", state.records, state.i + upsert_batch_size,
                   Append(state.requests, request), FALSE, state.before)
  ELSE UpsertState("done", state.records, state.i,
                   Append(state.requests, request), TRUE, state.before)

\* return False from inside the loop.
abort(state, request) ==
  UpsertState("done", state.records, state.i, Append(state.requests, request), FALSE,
              state.before)

---------------------------------------------------------------------------
(* The entry points.  A run of an entry point is the sequence of the calls  *)
(* its main makes, each succeeding or failing; what main does on a failure  *)
(* is part of the step: "stop" (st.stop(), sys.exit(1) or return), "raise"  *)
(* (an exception nothing catches), "skip" (the else branch: the calls that  *)
(* depend on the success are passed over) or "go_on" (the next statement).  *)

Step(call, kind, on_failure) == [call |-> call, kind |-> kind, on_failure |-> on_failure]

\* The output artifacts of the command-line scripts.
CONSOLIDATED_CSV == "consolidated_course_data.csv"
RESULT_CSV == "course_analytics_result.csv"

\* streamlit_app.main, the button that starts the processing, with the
\* sidebar's choice of the separated or the combined table.
streamlit_process(use_separated_tables) ==
  << Step("authenticate_supabase", "authenticate", "stop"),
     Step("check_supabase_connection", "check", "stop"),
     Step("load_student_list", "load", "stop"),
     Step("extract_course_data", "load", "stop"),
     Step("extract_course_data", "load", "stop"),
     Step("extract_course_data", "load", "stop"),
     Step("consolidate_data", "process", "stop") >>
  \o IF use_separated_tables
     THEN << Step("upload_students_to_supabase", "upload", "stop"),
             Step("upload_all_courses_to_supabase", "upload", "stop") >>
     ELSE << Step("upload_to_supabase", "upload", "go_on") >>

\* streamlit_app.main, the button that checks the connection.
streamlit_check ==
  << Step("authenticate_supabase", "authenticate", "skip"),
     Step("check_supabase_connection", "check", "go_on") >>

\* separated_db_functions.main, the button that starts the processing.
separated_process ==
  << Step("authenticate_supabase", "authenticate", "stop"),
     Step("load_student_list", "load", "stop"),
     Step("extract_course_data", "load", "stop"),
     Step("extract_course_data", "load", "stop"),
     Step("extract_course_data", "load", "stop"),
     Step("consolidate_data", "process", "stop"),
     Step("upload_all_courses_to_supabase", "upload", "stop") >>

\* separated_db_functions.main, the button that checks the connection.
separated_check == << Step("authenticate_supabase", "authenticate", "go_on") >>

\* separated_db_functions.main, the button that refreshes the students.
separated_students ==
  << Step("authenticate_supabase", "authenticate", "skip"),
     Step("load_student_list", "load", "skip"),
     Step("upload_students_to_supabase", "upload", "go_on") >>

\* consolidate_course_data.main; consolidate_data reads the three course
\* files and merges each.
consolidate_main ==
  << Step("load_student_list", "load", "raise"),
     Step("extract_course_data", "load", "raise"),
     Step("extract_course_data", "load", "raise"),
     Step("extract_course_data", "load", "raise"),
     Step(CONSOLIDATED_CSV, "write", "raise"),
     Step("authenticate_google_sheets", "authenticate", "skip"),
     Step("update_google_sheet_incremental", "upload", "go_on") >>

\* simple_course_processor.main, called with its three arguments.
simple_main ==
  << Step("load_excel_student_data", "load", "stop"),
     Step("load_csv_course_data", "load", "stop"),
     Step("process_course_analytics", "process", "stop"),
     Step("merge_student_and_course_data", "process", "stop"),
     Step(RESULT_CSV, "write", "raise"),
     Step("authenticate_google_sheets", "authenticate", "skip"),
     Step("update_google_sheet", "upload", "go_on") >>

\* sample_update_sheets.main.
sample_main ==
  << Step("os.path.exists", "exists", "stop"),
     Step("load_consolidated_data", "load", "raise"),
     Step("authenticate_google_sheets", "authenticate", "skip"),
     Step("upload_sample_data", "upload", "go_on") >>

STREAMLIT   == "streamlit_app.main"
SEPARATED   == "separated_db_functions.main"
CONSOLIDATE == "consolidate_course_data.main"
SIMPLE      == "simple_course_processor.main"
SAMPLE      == "sample_update_sheets.main"

\* What can be launched: an entry point with the button pressed and the
\* option chosen, and the calls of that run.
Launchable(entry, button, program) == [entry |-> entry, button |-> button, program |-> program]

LAUNCHABLE ==
  { Launchable(STREAMLIT, "process, separated tables", streamlit_process(TRUE)),
    Launchable(STREAMLIT, "process, combined table", streamlit_process(FALSE)),
    Launchable(STREAMLIT, "check", streamlit_check),
    Launchable(SEPARATED, "process", separated_process),
    Launchable(SEPARATED, "check", separated_check),
    Launchable(SEPARATED, "students", separated_students),
    Launchable(CONSOLIDATE, "", consolidate_main),
    Launchable(SIMPLE, "", simple_main),
    Launchable(SAMPLE, "", sample_main) }

\* The position after the step at pc were no result looked at: the next
\* step, whatever the call returned.
next_pc_past_failure(program, pc, ok) == IF pc < Len(program) THEN pc + 1 ELSE 0

\* The position after the step at pc: the next step, or 0 when the run is
\* over.  A failure goes on only where main has no branch on it.
next_pc(program, pc, ok) ==
  IF ok \/ program[pc].on_failure = "go_on"
  THEN IF pc < Len(program) THEN pc + 1 ELSE 0
  ELSE 0

\* One call of a run, as it ended.
Event(step, ok) == [call |-> step.call, kind |-> step.kind, ok |-> ok]

\* The state of the runs: the entry point running (pc is the position of its
\* next call, 0 when no run is in progress), the events of this run, the
\* artifacts on the disk and the number of runs launched.
Run(launched, program, pc, events, disk, count) ==
  [entry |-> launched.entry, button |-> launched.button, program |-> program,
   pc |-> pc, events |-> events, disk |-> disk, count |-> count]

NoRun == Run([entry |-> "none", button |-> ""], <<>>, 0, <<>>, {}, 0)

---------------------------------------------------------------------------
(* update_google_sheet_incremental and upload_data_in_batches:              *)
(* consolidate_course_data.py.  The worksheet is what the remote sheet      *)
(* holds: a header row and a number of data rows.  The contents of a row    *)
(* play no part in the control flow, so a table stands as its row count.    *)
(* Each request to the sheet is one step; the remote service chooses        *)
(* whether it succeeds or raises.                                           *)

\* batch_size of upload_data_in_batches.
sheet_batch_size == 1000

\* Largest number of batches a table of the catalogue fills.
MaxSheetBatches == 2

\* header is "none" (an empty sheet), "other" (a header without the email
\* column), "email" (an older header with the email column) or "new" (the
\* header of the table being written).
Worksheet(header, rows) == [header |-> header, rows |-> rows]

WORKSHEETS == { Worksheet("none", 0), Worksheet("other", 1), Worksheet("email", 2) }

\* Sizes of data_df around the batch boundaries.
SHEET_ROWS ==
  {0, 1} \cup {k * sheet_batch_size + d : k \in 1..(MaxSheetBatches - 1), d \in {0, 1}}

\* A request to the sheet and how it ended.
SheetRequest(call, start_row, ok) == [call |-> call, start_row |-> start_row, ok |-> ok]

\* The position of the call: pc is "idle", "open" (before client.open and
\* spreadsheet.worksheet), "records" (before get_all_records), "clear",
\* "header", "batch" (before the update of the batch at i) or "done".
\* shared is the number of emails data_df has in common with the worksheet,
\* total_rows the length of the table handed to upload_data_in_batches,
\* uploaded what upload_data_in_batches returned.
SheetState(pc, worksheet, data_rows, shared, total_rows, i, requests, uploaded, returned) ==
  [pc |-> pc, worksheet |-> worksheet, data_rows |-> data_rows, shared |-> shared,
   total_rows |-> total_rows, i |-> i, requests |-> requests, uploaded |-> uploaded,
   returned |-> returned]

NoSheet == SheetState("idle", Worksheet("none", 0), 0, 0, 0, 0, <<>>, "none", "none")

\* One more request in the state.
sheet_step(state, pc, worksheet, i, request) ==
  SheetState(pc, worksheet, state.data_rows, state.shared, state.total_rows, i,
             Append(state.requests, request), state.uploaded, state.returned)

\* upload_data_in_batches returned; the caller drops the value, prints the
\* success line and returns True.
sheet_return(state, uploaded) ==
  [state EXCEPT !.pc = "done", !.uploaded = uploaded, !.returned = "True"]

\* len(merged_df) of the outer merge on the email column, the emails of
\* either side being distinct.
merged_rows(existing_rows, data_rows, shared) == existing_rows + data_rows - shared

\* The table the branches hand to upload_data_in_batches: data_df when the
\* sheet gave no records or has no email column, merged_df otherwise.
rows_to_upload(worksheet, read_ok, data_rows, shared) ==
  IF ~read_ok \/ worksheet.rows = 0 THEN data_rows
  ELSE IF worksheet.header = "email" THEN merged_rows(worksheet.rows, data_rows, shared)
  ELSE data_rows

\* batch_end = min(i + batch_size, total_rows)
batch_end(i, total_rows) ==
  IF i + sheet_batch_size < total_rows THEN i + sheet_batch_size ELSE total_rows

---------------------------------------------------------------------------
(* upload_course_data_to_supabase and upload_all_courses_to_supabase:       *)
(* separated_db_functions.py.  Each course has its own remote table, a      *)
(* sequence of records unique in the email key.  upload_all_courses is a    *)
(* process: one step per pair of zip(course_data_list, course_names), its   *)
(* position kept in the variable course_uploads.                            *)

DB_PROGRESS == <<"p~","r~","o~","c~","e~","n~","t~","_","z~","a~","v~","e~","r~","sh~","e~","n~","i~","ya~">>

COURSE_CG       == "course_cg"
COURSE_PYTHON   == "course_python"
COURSE_ANALYSIS == "course_analysis"

COURSE_TABLES == {COURSE_CG, COURSE_PYTHON, COURSE_ANALYSIS}

\* table_mapping.get(course_name): "" stands for None.
table_mapping(name) ==
  CASE name = CG    -> COURSE_CG
    [] name = PITON -> COURSE_PYTHON
    [] name = ANDAN -> COURSE_ANALYSIS
    [] OTHER        -> ""

\* progress_value of row i: float(row[percent_col]) when the row has the
\* column and the cell is neither missing nor ''; None otherwise, and None
\* when float() raises ValueError or TypeError.
progress_value(df, i, name) ==
  IF /\ has_column(df, percent_column(name))
     /\ notna(df.data[percent_column(name)][i])
     /\ df.data[percent_column(name)][i] # Str(<<>>)
     /\ ~float_raises(df.data[percent_column(name)][i])
  THEN float(df.data[percent_column(name)][i])
  ELSE None

course_record(df, i, name) ==
  [key \in {DB_EMAIL, DB_PROGRESS} |->
     IF key = DB_EMAIL THEN Str(student_email(df, i)) ELSE progress_value(df, i, name)]

\* records_for_upsert of upload_course_data_to_supabase, in row order.
course_records_for_upsert(df, name) ==
  CHOOSE records \in
    {[r \in 1..Len(kept) |-> course_record(df, kept[r], name)] :
       kept \in {SelectSeq([i \in 1..df.n |-> i], LAMBDA i : gives_record(emails, i)) :
                   emails \in {[i \in 1..df.n |-> student_email(df, i)]}}} : TRUE

\* batch_size of upload_course_data_to_supabase.
course_batch_size == 200

\* batch = records_for_upsert[i:i + batch_size], i counted from 0.
course_slice(records, i) ==
  SubSeq(records, i + 1,
         IF i + course_batch_size < Len(records) THEN i + course_batch_size ELSE Len(records))

\* One upsert request sent to a course table.
CourseUpsert(table_name, i, batch, ok) ==
  [table_name |-> table_name, i |-> i, batch |-> batch, ok |-> ok]

\* What a call of upload_course_data_to_supabase did: its result, the table
\* afterwards, its requests in order and the records it built.
CourseUpload(returned, table_name, table, requests, records) ==
  [returned |-> returned, table_name |-> table_name, table |-> table,
   requests |-> requests, records |-> records]

\* The loop over range(0, len(records_for_upsert), batch_size) from i on; the
\* request of batch number fails (0: none) raises, and the except branch
\* returns False.
RECURSIVE course_upsert_from(_, _, _, _, _, _)
course_upsert_from(table_name, table, records, i, requests, fails) ==
  IF i >= Len(records) THEN CourseUpload(TRUE, table_name, table, requests, records)
  ELSE IF (i \div course_batch_size) + 1 = fails
  THEN CourseUpload(FALSE, table_name, table,
                    Append(requests, CourseUpsert(table_name, i, course_slice(records, i), FALSE)),
                    records)
  ELSE course_upsert_from(table_name, upsert_rows(table, course_slice(records, i)), records,
                          i + course_batch_size,
                          Append(requests,
                                 CourseUpsert(table_name, i, course_slice(records, i), TRUE)),
                          fails)

\* upload_course_data_to_supabase(supabase, course_data, course_name), tables
\* being the remote tables by name.
upload_course_data_to_supabase(tables, course_data, name, fails) ==
  IF table_mapping(name) = "" THEN CourseUpload(FALSE, "", <<>>, <<>>, <<>>)
  ELSE IF course_data.none \/ course_data.df.n = 0
  THEN CourseUpload(TRUE, table_mapping(name), tables[table_mapping(name)], <<>>, <<>>)
  ELSE CHOOSE done \in
         {course_upsert_from(table_mapping(name), tables[table_mapping(name)], records, 0,
                             <<>>, fails) :
            records \in {course_records_for_upsert(course_data.df, name)}} : TRUE

\* The position of upload_all_courses_to_supabase: pc is "idle", "loop"
\* (before the pair at k of the zip, or before the return once the zip is
\* exhausted) or "done".  uploads lists what each call of
\* upload_course_data_to_supabase did, tables_before the tables at the call.
CourseUploads(pc, data_list, names, k, course_results, tables, tables_before, returned) ==
  [pc |-> pc, course_data_list |-> data_list, course_names |-> names, k |-> k,
   uploads |-> course_results, tables |-> tables, tables_before |-> tables_before,
   returned |-> returned]

EMPTY_TABLES == [table_name \in COURSE_TABLES |-> <<>>]

NoCourseUploads == CourseUploads("idle", <<>>, <<>>, 1, <<>>, EMPTY_TABLES, EMPTY_TABLES, "none")

\* The pair the for loop takes after the pair at k, whatever the upload of
\* that pair returned; with stopping at the first failure it is the end of
\* the zip, n + 1.
next_pair_until_failure(k, n, ok) == IF ok THEN k + 1 ELSE n + 1

next_pair(k, n, ok) == k + 1

\* success_count
success_count(course_results) ==
  Cardinality({k \in 1..Len(course_results) : course_results[k].returned})

---------------------------------------------------------------------------
(* Two invocations of an upload at once, against the same remote table.     *)
(* An invocation builds its requests from what it read; the table answers   *)
(* each request by what it holds when the request arrives.                  *)

\* The position of one invocation: pc is "start", "selected" (the combined
\* upload has read the existing rows and made its plan) or "done".
Invocation(pc, data_df, plan, done) ==
  [pc |-> pc, data_df |-> data_df, plan |-> plan, done |-> done]

\* Both invocations, the path they take ("combined": upload_to_supabase,
\* "upsert": upload_students_to_supabase) and the order in which they issued
\* their writes.
Invocations(path, of, writes) == [path |-> path, of |-> of, writes |-> writes]

NoInvocations == Invocations("none", <<>>, <<>>)

\* What the table, unique in the email key, answers to the inserts of a plan:
\* a batch holding a stored email raises the duplicate-key error, and of the
\* records then sent one by one those with a stored email raise it again.
unique_key_faults(store, plan) ==
  LET stored == {stored_email(store[id]) : id \in 1..Len(store)}
      taken(record) == record[DB_EMAIL].s \in stored
  IN  Faults("ok",
             [b \in 1..batches(Len(plan.records_to_insert)) |->
                IF \E r \in 1..Len(batch_data(plan.records_to_insert, b)) :
                     taken(batch_data(plan.records_to_insert, b)[r])
                THEN "duplicate" ELSE "ok"],
             {k \in 1..Len(plan.records_to_insert) : ~taken(plan.records_to_insert[k])},
             0)

---------------------------------------------------------------------------
(* The uploaded files the model draws from.  A family of tables is a header *)
(* row with, per column, the cells that column may hold; its tables are all *)
(* the tables of at most MaxRows rows over those cells.  A file of another  *)
(* format than Excel is drawn over one small table.                         *)

\* All tables of exactly n rows with the given columns, column c holding
\* cells of domain[c].
RECURSIVE tables_of(_, _, _)
tables_of(columns, n, domain) ==
  IF columns = <<>> THEN {DataFrame(<<>>, n, <<>>)}
  ELSE LET last == columns[Len(columns)]
       IN  {DataFrame(Append(t.columns, last), n,
                      [k \in (DOMAIN t.data) \cup {last} |->
                         IF k = last THEN v ELSE t.data[k]]) :
              t \in tables_of(SubSeq(columns, 1, Len(columns) - 1), n, domain),
              v \in [1..n -> domain[last]]}

\* Roster headers: 'Username' holds the synonym 'name' of the full-name field,
\* 'Kurs, gruppa' synonyms of two fields, 'ID' none.
ROSTER_HEADERS ==
  {<<"F~","I~","O~">>, <<"U","s","e","r","n","a","m","e">>, <<"E","m","a","i","l">>, <<"K~","u~","r~","s~",","," ","g~","r~","u~","p~","p~","a~">>, <<"G~","r~","u~","p~","p~","a~">>, USER_DATA, <<"I","D">>}

\* Raw values of a roster's email column.
ROSTER_EMAILS ==
  {Str(<<"a","@","e","d","u",".","h","s","e",".","r","u">>), Str(<<" ","B","@","e","d","u",".","h","s","e",".","r","u"," ">>), Str(<<"c","@","E","D","U",".","H","S","E",".","R","U">>),
   Str(<<"d","@","e","d","u","x","h","s","e",".","r","u">>), Str(<<"e","@","h","s","e",".","r","u">>), NaN}

\* Values of the composite user-data column.
USER_DATA_CELLS == {Str(<<"F",";","P",";","1",";","G">>), Str(<<"F",";","P">>), NaN}

\* All header rows of at most k distinct headers.
RECURSIVE header_lists(_)
header_lists(k) ==
  IF k = 0 THEN {<<>>}
  ELSE LET shorter == header_lists(k - 1)
       IN  shorter \cup
           {Append(hl, h) : hl \in {x \in shorter : Len(x) = k - 1},
                            h \in ROSTER_HEADERS}

distinct(hl) == \A i, j \in 1..Len(hl) : i # j => hl[i] # hl[j]

\* The cells of a freely enumerated header row: a valid email under 'Email',
\* a four-part value under the composite column, the header's own text
\* under any other header (so a cell tells which column it came from).
own_cells == [h \in ROSTER_HEADERS |->
  IF h = <<"E","m","a","i","l">> THEN {Str(<<"a","@","e","d","u",".","h","s","e",".","r","u">>)}
  ELSE IF h = USER_DATA THEN {Str(<<"F",";","P",";","1",";","G">>)}
  ELSE {Str(h)}]

ROSTER_FAMILIES ==
  {[columns |-> hl, domain |-> own_cells] : hl \in {x \in header_lists(MaxHeaders) : distinct(x)}}
  \cup
  {[columns |-> << <<"E","m","a","i","l">> >>,
    domain |-> [h \in ROSTER_HEADERS |-> ROSTER_EMAILS]],
   [columns |-> << <<"F~","I~","O~">>, <<"E","m","a","i","l">> >>,
    domain |-> [h \in ROSTER_HEADERS |-> IF h = <<"E","m","a","i","l">> THEN ROSTER_EMAILS ELSE {Str(h)}]],
   [columns |-> << <<"E","m","a","i","l">>, USER_DATA, <<"G~","r~","u~","p~","p~","a~">> >>,
    domain |-> [h \in ROSTER_HEADERS |->
                  IF h = USER_DATA THEN USER_DATA_CELLS ELSE own_cells[h]]]}

\* What the three delimited-text readings may do with a file's bytes.
READ_OUTCOMES == {"ok", "UnicodeDecodeError", "ParserError", "Exception"}

Excel(df) == UploadedFile(<<"E","x","p","o","r","t",".","X","L","S","X">>, df, "ok", "ok", "ok")

\* Files of the other formats, over one small table.
other_formats(df) ==
  {UploadedFile(<<"r",".","c","s","v">>, df, a, b, c) :
     a \in READ_OUTCOMES, b \in READ_OUTCOMES, c \in {"ok", "UnicodeDecodeError"}}
  \cup {UploadedFile(<<"r",".","x","l","s">>, df, "ok", "ok", "ok"),
        UploadedFile(<<"r",".","t","x","t">>, df, "ok", "ok", "ok")}

ROSTER_SAMPLE ==
  DataFrame(<< <<"E","m","a","i","l">> >>, 1,
            [h \in {<<"E","m","a","i","l">>} |-> << Str(<<"a","@","e","d","u",".","h","s","e",".","r","u">>) >>])

\* Course exports.
C_EMAIL == <<"E","m","a","i","l">>
U1 == <<"U","n","n","a","m","e","d",":"," ","1">>
U2 == <<"U","n","n","a","m","e","d",":"," ","2">>
Z1 == <<"Z~","a~","d~","a~","n~","i~","e~"," ","1">>
Z2 == <<"Z~","a~","d~","a~","n~","i~","e~"," ","2">>
SURVEY == <<"O~","p~","r~","o~","s~"," ","1">>
PROGRESS == <<"P","r","o","g","r","e","s","s">>
OTHER_COL == <<"S~","t~","r~","a~","n~","a~"," ","p~","r~","o~","zh~","i~","v~","a~","n~","i~","ya~">>

TS      == Str(<<"2","0","2","3","-","0","5","-","0","1"," ","9",":","3","0">>)
DATE    == Str(<<"2","0","2","3","-","0","5","-","0","1">>)
DONE    == Str(DONE_MARKER)
NOTDONE == Str(NOT_DONE)
STARTED == Str(<<"N~","a~","ch~","a~","t~","o~">>)
BLANK   == Str(<< " " >>)
NANSTR  == Str(<<"n","a","n">>)

VALID   == Str(<<" ","A","@","E","D","U",".","h","s","e",".","r","u"," ">>)
VALID2  == Str(<<"c","@","e","d","u",".","h","s","e",".","r","u">>)
INVALID == Str(<<"b","@","h","s","e",".","r","u">>)
DOTTED  == Str(<<"d","@","e","d","u","x","h","s","e",".","r","u">>)

COURSE_LABELS == {C_EMAIL, <<"P~","o~","ch~","t~","a~">>, UNNAMED_0, U1, U2, Z1, Z2, SURVEY, PROGRESS, OTHER_COL}

Family(columns, domains) ==
  [columns |-> columns,
   domain |-> [h \in COURSE_LABELS |->
                 IF \E i \in 1..Len(columns) : columns[i] = h
                 THEN domains[CHOOSE i \in 1..Len(columns) : columns[i] = h]
                 ELSE {}]]

COURSE_FAMILIES == {
  \* two timestamp columns
  Family(<<C_EMAIL, U1, U2>>, <<{VALID, INVALID}, {NaN, TS, DATE}, {NaN, TS, NANSTR}>>),
  \* two status columns
  Family(<<C_EMAIL, Z1, Z2>>,
         <<{VALID}, {NaN, DONE, NOTDONE, STARTED}, {BLANK, NANSTR, DONE, NOTDONE}>>),
  \* a direct percentage column alone
  Family(<<C_EMAIL, PROGRESS>>,
         <<{VALID, INVALID, DOTTED},
           {NaN, Num(0, 1), Num(100, 1), Num(150, 1), Num(-5, 1)}>>),
  \* all three kinds of column together
  Family(<<C_EMAIL, U1, Z1, PROGRESS>>,
         <<{VALID, INVALID}, {NaN, TS}, {NaN, DONE}, {Num(50, 1)}>>),
  \* a status column beside a direct percentage column
  Family(<<C_EMAIL, Z1, PROGRESS>>,
         <<{VALID2}, {NaN, DONE, NOTDONE}, {Num(50, 1), Num(150, 1)}>>),
  \* the index column, a denylisted column and an activity column
  Family(<<UNNAMED_0, C_EMAIL, SURVEY, Z1>>,
         <<{TS}, {VALID2}, {NaN, DONE}, {NaN, DONE, NOTDONE}>>),
  \* no email column
  Family(<<U1, PROGRESS>>, <<{TS}, {Num(50, 1)}>>),
  \* two email columns, nothing else of use
  Family(<< <<"P~","o~","ch~","t~","a~">>, C_EMAIL, OTHER_COL>>, <<{INVALID}, {VALID}, {DONE}>>) }

COURSE_SAMPLE ==
  DataFrame(<<C_EMAIL, U1>>, 1,
            [h \in {C_EMAIL, U1} |-> IF h = C_EMAIL THEN <<VALID>> ELSE <<TS>>])

\* Course names main passes: the one with a denylist and one without.
COURSE_NAMES == {CG, <<"P~","i~","t~","o~","n~">>}

---------------------------------------------------------------------------
(* The state machine: the page is idle, one function is called on an       *)
(* uploaded file, the script run ends and the page is idle again.          *)

NoFile   == [name |-> <<>>]
NoResult == [returned |-> FALSE]

Init ==
  /\ op = "idle"
  /\ uploaded_file = NoFile
  /\ course_name = <<>>
  /\ result = NoResult
  /\ students = EmptyFrame
  /\ courses = <<>>
  /\ consolidated_data = NoResult
  /\ course_analytics = <<>>
  /\ uploads = <<>>
  /\ students_table = <<>>
  /\ upsert = NoUpsert
  /\ run = NoRun
  /\ sheet = NoSheet
  /\ course_uploads = NoCourseUploads
  /\ invocations = NoInvocations

\* load_student_list(file) is called.
LoadStudentList(file) ==
  /\ op = "idle"
  /\ op' = "load_student_list"
  /\ uploaded_file' = file
  /\ result' = load_student_list(file)
  /\ UNCHANGED course_name
  /\ UNCHANGED <<sink_vars, upsert_vars, run, more_vars>>

\* extract_course_data(file, name) is called.
ExtractCourseData(file, name) ==
  /\ op = "idle"
  /\ op' = "extract_course_data"
  /\ uploaded_file' = file
  /\ course_name' = name
  /\ result' = extract_course_data(file, name)
  /\ UNCHANGED <<sink_vars, upsert_vars, run, more_vars>>

\* The script run is over; nothing of it is kept.
EndRun ==
  /\ op # "idle"
  /\ op' = "idle"
  /\ uploaded_file' = NoFile
  /\ course_name' = <<>>
  /\ result' = NoResult
  /\ UNCHANGED <<sink_vars, upsert_vars, run, more_vars>>

\* A call on any uploaded file of the families above.
CallLoadStudentList ==
  /\ op = "idle"
  /\ \/ \E f \in ROSTER_FAMILIES, n \in 0..MaxRows :
          \E df \in tables_of(f.columns, n, f.domain) : LoadStudentList(Excel(df))
     \/ \E file \in other_formats(ROSTER_SAMPLE) : LoadStudentList(file)

CallExtractCourseData ==
  /\ op = "idle"
  /\ \/ \E f \in COURSE_FAMILIES, n \in 0..MaxRows, name \in COURSE_NAMES :
          \E df \in tables_of(f.columns, n, f.domain) : ExtractCourseData(Excel(df), name)
     \/ \E file \in other_formats(COURSE_SAMPLE), name \in COURSE_NAMES :
          ExtractCourseData(file, name)

Next == CallLoadStudentList \/ CallExtractCourseData \/ EndRun

Spec == Init /\ [][Next]_vars

loaded    == op = "load_student_list"
extracted == op = "extract_course_data"


---------------------------------------------------------------------------
(* The sink run: the tables main hands to consolidate_data, the remote      *)
(* table it finds, and the upload of the consolidated table, once and then  *)
(* once more with the same table.                                           *)

\* course_names of main
course_names == <<CG, PITON, ANDAN>>

\* All lists of at most n elements of S.
lists_upto(S, n) == UNION {[1..k -> S] : k \in 0..n}

\* Rows of a roster file: two rows whose emails are the same once lowercased
\* and trimmed, under different names, and a third student without a name.
Student(fio, email) == [fio |-> fio, email |-> email]

SINK_ROSTER_ROWS ==
  {Student(Str(<<"N","1">>), Str(<<"a","@","e","d","u",".","h","s","e",".","r","u">>)),
   Student(Str(<<"N","2">>), Str(<<" ","A","@","e","d","u",".","h","s","e",".","r","u"," ">>)),
   Student(NaN,       Str(<<"b","@","e","d","u",".","h","s","e",".","r","u">>))}

roster_file(rows) ==
  Excel(DataFrame(<<FIO, <<"E","m","a","i","l">>>>, Len(rows),
                  [h \in {FIO, <<"E","m","a","i","l">>} |->
                     [i \in 1..Len(rows) |-> IF h = FIO THEN rows[i].fio ELSE rows[i].email]]))

\* The rosters load_student_list returns for those files.
SINK_ROSTERS ==
  {load_student_list(roster_file(rows)).df : rows \in lists_upto(SINK_ROSTER_ROWS, MaxRows)}

\* Rows of a course export with a direct percentage column.
Progress(email, value) == [email |-> email, value |-> value]

progress_file(rows) ==
  Excel(DataFrame(<<C_EMAIL, PROGRESS>>, Len(rows),
                  [h \in {C_EMAIL, PROGRESS} |->
                     [i \in 1..Len(rows) |->
                        IF h = C_EMAIL THEN rows[i].email ELSE rows[i].value]]))

\* What main appends to course_data_list for a file: the table
\* extract_course_data returns (None when it returns None).
course_data_of(file, name) ==
  LET extraction == extract_course_data(file, name)
  IN  IF extraction.returned THEN Table(course_frame(extraction.rows, name)) ELSE NoTable

\* Exports of one course: empty; one student of the roster; the same student
\* twice; a student the roster does not have; two students, one of each.
PROGRESS_ROWS ==
  { <<>>,
    << Progress(VALID, Num(50, 1)) >>,
    << Progress(VALID, Num(0, 1)), Progress(VALID, Num(50, 1)) >>,
    << Progress(VALID2, Num(50, 1)) >>,
    << Progress(Str(<<"b","@","e","d","u",".","h","s","e",".","r","u">>), Num(100, 1)), Progress(VALID2, Num(0, 1)) >> }

\* The lists main may hold: one course, all three, and lists with a None.
COURSE_DATA_LISTS ==
  { <<>> }
  \cup { << course_data_of(progress_file(rows), CG) >> : rows \in PROGRESS_ROWS }
  \cup { << course_data_of(progress_file(rows), CG),
            NoTable,
            course_data_of(Excel(COURSE_SAMPLE), ANDAN) >> :
           rows \in {<< Progress(VALID, Num(50, 1)) >>, << Progress(VALID2, Num(50, 1)) >>} }
  \cup { << course_data_of(progress_file(<< Progress(VALID, Num(50, 1)) >>), CG),
            course_data_of(progress_file(rows), PITON),
            course_data_of(Excel(COURSE_SAMPLE), ANDAN) >> :
           rows \in {<< Progress(VALID2, Num(0, 1)) >>,
                     << Progress(Str(<<"b","@","e","d","u",".","h","s","e",".","r","u">>), Num(0, 1)) >>} }

\* What Series.where(..., None) leaves in place of a missing value, by the
\* pandas build: None, or NaN again.
MISSING == {None, NaN}

\* A record of the remote table.
Stored(fio, email, faculty, cg, python) ==
  [key \in record_keys |->
     CASE key = DB_FIO     -> fio
       [] key = DB_EMAIL   -> email
       [] key = DB_FACULTY -> faculty
       [] key = DB_CG      -> cg
       [] key = DB_PYTHON  -> python
       [] OTHER            -> None]

\* The remote table before the run: empty; an older record of the first
\* student, with values the new data lacks; records of both students as an
\* earlier upload left them.
STORES ==
  { <<>>,
    << Stored(Str(<<"O","l","d">>), Str(<<"a","@","e","d","u",".","h","s","e",".","r","u">>), Str(<<"F">>), Num(50, 1), Num(70, 1)) >>,
    << Stored(Str(<<"N","1">>), Str(<<"a","@","e","d","u",".","h","s","e",".","r","u">>), None, Num(50, 1), None),
       Stored(Str(UNKNOWN), Str(<<"b","@","e","d","u",".","h","s","e",".","r","u">>), None, None, None) >> }

\* The things the remote table may do during a call on data_df: the select
\* raises; or each insert batch has one of its outcomes (after a
\* duplicate-key error any of the batch's records may be taken one by one)
\* and at most one update raises.
faults_of_plan(plan) ==
  IF plan.raised THEN {Faults("ok", <<>>, {}, 0)}
  ELSE {Faults("error", <<>>, {}, 0)} \cup
       {f \in {Faults("ok", insert, accepted, update) :
                 insert \in [1..batches(Len(plan.records_to_insert)) -> INSERT_OUTCOMES],
                 accepted \in SUBSET (1..Len(batch_data(plan.records_to_insert, 1))),
                 update \in 0..Len(plan.records_to_update)} :
          /\ (f.accepted # {} => \E b \in DOMAIN f.insert : f.insert[b] = "duplicate")
          /\ (f.update # 0 => \A b \in DOMAIN f.insert : f.insert[b] # "other")}

faults_of(store, data_df) ==
  IF existing_data_raises(store) THEN {Faults("ok", <<>>, {}, 0)}
  ELSE UNION {faults_of_plan(plan) : plan \in {analyse(store, data_df, data_df.n)}}

SinkInit ==
  /\ op = "idle"
  /\ uploaded_file = NoFile
  /\ course_name = <<>>
  /\ result = NoResult
  /\ students = EmptyFrame
  /\ courses = <<>>
  /\ consolidated_data = NoResult
  /\ course_analytics \in STORES
  /\ uploads = <<>>
  /\ students_table = <<>>
  /\ upsert = NoUpsert
  /\ run = NoRun
  /\ sheet = NoSheet
  /\ course_uploads = NoCourseUploads
  /\ invocations = NoInvocations

\* consolidate_data(student_list, course_data_list, course_names) is called.
ConsolidateData(roster, list, na) ==
  /\ op = "idle"
  /\ op' = "consolidate_data"
  /\ students' = roster
  /\ courses' = list
  /\ consolidated_data' = consolidate_data(roster, list, course_names, na)
  /\ UNCHANGED <<file_vars, course_analytics, uploads, upsert_vars, run, more_vars>>

CallConsolidateData ==
  /\ op = "idle"
  /\ \E roster \in SINK_ROSTERS, list \in COURSE_DATA_LISTS, na \in MISSING :
        ConsolidateData(roster, list, na)

\* upload_to_supabase(supabase, consolidated_data) is called.
UploadToSupabase(faults) ==
  \E done \in {upload_to_supabase(course_analytics, consolidated_data.df, faults)} :
     /\ op' = "upload_to_supabase"
     /\ uploads' = Append(uploads, done)
     /\ course_analytics' = done.store
     /\ UNCHANGED <<file_vars, students, courses, consolidated_data, upsert_vars, run, more_vars>>

\* main goes on to the upload when consolidate_data returned a table.
CallUploadToSupabase ==
  /\ op = "consolidate_data"
  /\ consolidated_data.returned
  /\ \E faults \in faults_of(course_analytics, consolidated_data.df) : UploadToSupabase(faults)

\* The same table is uploaded once more.
RepeatUploadToSupabase ==
  /\ op = "upload_to_supabase"
  /\ Len(uploads) = 1
  /\ \E faults \in faults_of(course_analytics, consolidated_data.df) : UploadToSupabase(faults)

SinkNext == CallConsolidateData \/ CallUploadToSupabase \/ RepeatUploadToSupabase

SinkSpec == SinkInit /\ [][SinkNext]_vars

consolidate_returned == op # "idle" /\ consolidated_data.returned
uploaded == op = "upload_to_supabase"
---------------------------------------------------------------------------
(* The student upload as a process: upload_students_to_supabase is called   *)
(* with a roster, and each upsert request of its batch loop is one step     *)
(* whose outcome the remote service chooses.                                *)

\* Largest number of batches a roster of the catalogue fills.
MaxBatches == 3

\* Roster sizes around the batch boundaries: empty, one row, and a full or an
\* overfull last batch for every number of batches.
STUDENT_COUNTS ==
  {0, 1} \cup {k * upsert_batch_size + d : k \in 1..(MaxBatches - 1), d \in {0, 1}}

\* A roster as load_student_list returns it: n students with distinct
\* emails, the columns the file lacked filled with ''.  With junk, two more
\* rows: one whose email is outside the domain and one that repeats the first
\* student's email in capitals.
student_data(n, junk) ==
  LET rows == IF junk THEN n + 2 ELSE n
      fio(i) == IF i = n + 1 THEN Str(<<"X">>)
                ELSE IF i = n + 2 THEN Str(<<"S","1"," ","a","g","a","i","n">>)
                ELSE Str(<<"S">> \o int_str(i))
      email(i) == IF i = n + 1 THEN Str(<<"x","@","g","m","a","i","l",".","c","o","m">>)
                  ELSE IF i = n + 2 THEN Str(<<" ","S","1","@","E","D","U",".","H","S","E",".","R","U"," ">>)
                  ELSE Str(<<"s">> \o int_str(i) \o DOMAIN_MARKER)
  IN  DataFrame([k \in 1..Len(required_columns) |-> required_columns[k].target], rows,
                [h \in {required_columns[k].target : k \in 1..Len(required_columns)} |->
                   [i \in 1..rows |->
                      IF h = FIO THEN fio(i) ELSE IF h = EMAIL THEN email(i) ELSE Str(<<>>)]])

STUDENT_DATA == {student_data(n, junk) : n \in STUDENT_COUNTS, junk \in BOOLEAN}

\* A record of the table 'students'.
StoredStudent(fio, email) ==
  [key \in student_keys |->
     CASE key = DB_FIO   -> fio
       [] key = DB_EMAIL -> email
       [] OTHER          -> None]

\* The table before the call: empty, or holding the first student under an
\* older name and a student no roster has.
STUDENT_STORES ==
  { <<>>,
    << StoredStudent(Str(<<"O","l","d">>), Str(<<"s","1","@","e","d","u",".","h","s","e",".","r","u">>)),
       StoredStudent(Str(<<"G","o","n","e">>), Str(<<"z","@","e","d","u",".","h","s","e",".","r","u">>)) >> }

StudentsInit ==
  /\ op = "idle"
  /\ uploaded_file = NoFile
  /\ course_name = <<>>
  /\ result = NoResult
  /\ students = EmptyFrame
  /\ courses = <<>>
  /\ consolidated_data = NoResult
  /\ course_analytics = <<>>
  /\ uploads = <<>>
  /\ students_table \in STUDENT_STORES
  /\ upsert = NoUpsert
  /\ run = NoRun
  /\ sheet = NoSheet
  /\ course_uploads = NoCourseUploads
  /\ invocations = NoInvocations

\* upload_students_to_supabase(supabase, student_data) is called: the row loop
\* builds records_for_upsert; with no record the function returns True.
UploadStudentsToSupabase(roster) ==
  /\ upsert.pc = "idle"
  /\ op' = "upload_students_to_supabase"
  /\ students' = roster
  /\ \E records \in {records_for_upsert(roster)} :
       upsert' = IF records = <<>>
                 THEN UpsertState("done", records, 0, <<>>, TRUE, students_table)
                 ELSE UpsertState("upsert", records, 0, <<>>, FALSE, students_table)
  /\ UNCHANGED <<file_vars, courses, consolidated_data, course_analytics, uploads,
                 students_table, run, more_vars>>

CallUploadStudentsToSupabase == \E roster \in STUDENT_DATA : UploadStudentsToSupabase(roster)

\* The first upsert request of the batch at i.  On success the loop goes on.
\* On an exception the error text decides: a transient one leads to
\* time.sleep(2) and the retry, any other to return False.
UpsertBatch(outcome) ==
  /\ upsert.pc = "upsert"
  /\ \E batch \in {upsert_slice(upsert.records, upsert.i)} :
       /\ students_table' = IF outcome.committed THEN upsert_rows(students_table, batch)
                            ELSE students_table
       /\ \E request \in {Upsert(upsert.i, "first", batch, outcome)} :
            upsert' = IF outcome.ok THEN next_batch(upsert, request)
                      ELSE IF is_transient(outcome.text)
                           THEN UpsertState("retry", upsert.records, upsert.i,
                                            Append(upsert.requests, request), FALSE,
                                            upsert.before)
                           ELSE abort(upsert, request)
  /\ UNCHANGED <<op, file_vars, sink_vars, run, more_vars>>

FirstUpsertOfBatch == \E outcome \in UPSERT_OUTCOMES : UpsertBatch(outcome)

\* The retry of the same batch.  On success the loop goes on; on an exception
\* the function returns False.
RetryBatch(outcome) ==
  /\ upsert.pc = "retry"
  /\ \E batch \in {upsert_slice(upsert.records, upsert.i)} :
       /\ students_table' = IF outcome.committed THEN upsert_rows(students_table, batch)
                            ELSE students_table
       /\ \E request \in {Upsert(upsert.i, "retry", batch, outcome)} :
            upsert' = IF outcome.ok THEN next_batch(upsert, request)
                      ELSE abort(upsert, request)
  /\ UNCHANGED <<op, file_vars, sink_vars, run, more_vars>>

RetryUpsertOfBatch == \E outcome \in UPSERT_OUTCOMES : RetryBatch(outcome)

StudentsNext ==
  \/ CallUploadStudentsToSupabase
  \/ FirstUpsertOfBatch
  \/ RetryUpsertOfBatch

StudentsSpec == StudentsInit /\ [][StudentsNext]_vars

---------------------------------------------------------------------------
(* The entry points as processes: an entry point is launched, and each call *)
(* of its main is one step that succeeds or fails.                          *)

\* Largest number of runs launched one after the other.
MaxRuns == 2

EntryInit ==
  /\ op = "idle"
  /\ uploaded_file = NoFile
  /\ course_name = <<>>
  /\ result = NoResult
  /\ students = EmptyFrame
  /\ courses = <<>>
  /\ consolidated_data = NoResult
  /\ course_analytics = <<>>
  /\ uploads = <<>>
  /\ students_table = <<>>
  /\ upsert = NoUpsert
  /\ run = NoRun
  /\ sheet = NoSheet
  /\ course_uploads = NoCourseUploads
  /\ invocations = NoInvocations

\* An entry point is started: the script is run, or a button is pressed.
Launch(launched) ==
  /\ run.pc = 0
  /\ run.count < MaxRuns
  /\ run' = Run(launched, launched.program, 1, <<>>, run.disk, run.count + 1)
  /\ UNCHANGED <<op, file_vars, sink_vars, upsert_vars, more_vars>>

LaunchEntryPoint == \E launched \in LAUNCHABLE : Launch(launched)

\* The call at pc, of the given kind, ends: its event is recorded, a written
\* artifact is on the disk, and main goes on or ends the run.
Call(kind, ok) ==
  /\ run.pc > 0
  /\ run.program[run.pc].kind = kind
  /\ run' = [run EXCEPT
               !.pc = next_pc(run.program, run.pc, ok),
               !.events = Append(@, Event(run.program[run.pc], ok)),
               !.disk = IF kind = "write" /\ ok THEN @ \cup {run.program[run.pc].call} ELSE @]
  /\ UNCHANGED <<op, file_vars, sink_vars, upsert_vars, more_vars>>

\* authenticate_supabase / authenticate_google_sheets returns a client or None.
Authenticate == \E ok \in BOOLEAN : Call("authenticate", ok)

\* check_supabase_connection returns True or False.
CheckConnection == \E ok \in BOOLEAN : Call("check", ok)

\* A loader reads its file and returns a table, or fails.
LoadFile == \E ok \in BOOLEAN : Call("load", ok)

\* A processing function returns a table, or fails.
ProcessData == \E ok \in BOOLEAN : Call("process", ok)

\* to_csv writes the artifact, or raises.
WriteArtifact == \E ok \in BOOLEAN : Call("write", ok)

\* An upload returns True or False.
UploadData == \E ok \in BOOLEAN : Call("upload", ok)

\* os.path.exists(consolidated_file)
CheckFileExists == Call("exists", CONSOLIDATED_CSV \in run.disk)

EntryNext ==
  \/ LaunchEntryPoint
  \/ Authenticate
  \/ CheckConnection
  \/ LoadFile
  \/ ProcessData
  \/ WriteArtifact
  \/ UploadData
  \/ CheckFileExists

EntrySpec == EntryInit /\ [][EntryNext]_vars

---------------------------------------------------------------------------
(* The Google sheet update as a process. *)

SheetInit ==
  /\ op = "idle"
  /\ uploaded_file = NoFile
  /\ course_name = <<>>
  /\ result = NoResult
  /\ students = EmptyFrame
  /\ courses = <<>>
  /\ consolidated_data = NoResult
  /\ course_analytics = <<>>
  /\ uploads = <<>>
  /\ students_table = <<>>
  /\ upsert = NoUpsert
  /\ run = NoRun
  /\ sheet \in {[NoSheet EXCEPT !.worksheet = worksheet] : worksheet \in WORKSHEETS}
  /\ course_uploads = NoCourseUploads
  /\ invocations = NoInvocations

sheet_unchanged ==
  UNCHANGED <<op, file_vars, sink_vars, upsert_vars, run, course_uploads, invocations>>

\* update_google_sheet_incremental(client, data_df) is called.
UpdateGoogleSheetIncremental(data_rows, shared) ==
  /\ sheet.pc = "idle"
  /\ shared <= data_rows
  /\ shared <= (IF sheet.worksheet.header = "email" THEN sheet.worksheet.rows ELSE 0)
  /\ sheet' = SheetState("open", sheet.worksheet, data_rows, shared, 0, 0, <<>>,
                         "none", "none")
  /\ sheet_unchanged

CallUpdateGoogleSheetIncremental ==
  \E data_rows \in SHEET_ROWS, shared \in 0..sheet.worksheet.rows : UpdateGoogleSheetIncremental(data_rows, shared)

\* client.open('DC_stat') and spreadsheet.worksheet(...): an exception goes to
\* the outer except, which returns False.
OpenWorksheet(ok) ==
  /\ sheet.pc = "open"
  /\ sheet' = IF ok THEN sheet_step(sheet, "records", sheet.worksheet, 0,
                                    SheetRequest("open", 0, ok))
              ELSE [sheet_step(sheet, "done", sheet.worksheet, 0, SheetRequest("open", 0, ok))
                      EXCEPT !.returned = "False"]
  /\ sheet_unchanged

OpenTheWorksheet == \E ok \in BOOLEAN : OpenWorksheet(ok)

\* worksheet.get_all_records(): an exception leaves existing_df empty.  The
\* branch is chosen and upload_data_in_batches is entered.
GetAllRecords(ok) ==
  /\ sheet.pc = "records"
  /\ sheet' = [sheet_step(sheet, "clear", sheet.worksheet, 0,
                          SheetRequest("get_all_records", 0, ok))
                 EXCEPT !.total_rows = rows_to_upload(sheet.worksheet, ok, sheet.data_rows,
                                                      sheet.shared)]
  /\ sheet_unchanged

GetExistingRecords == \E ok \in BOOLEAN : GetAllRecords(ok)

\* worksheet.clear()
ClearWorksheet(ok) ==
  /\ sheet.pc = "clear"
  /\ sheet' = IF ok THEN sheet_step(sheet, "header", Worksheet("none", 0), 0,
                                    SheetRequest("clear", 0, ok))
              ELSE sheet_return(sheet_step(sheet, "clear", sheet.worksheet, 0,
                                           SheetRequest("clear", 0, ok)), "False")
  /\ sheet_unchanged

ClearTheWorksheet == \E ok \in BOOLEAN : ClearWorksheet(ok)

\* worksheet.update('A1', [headers]); with no data row the loop is not
\* entered and upload_data_in_batches returns True.
UpdateHeaders(ok) ==
  /\ sheet.pc = "header"
  /\ \E request \in {SheetRequest("update", 1, ok)} :
       sheet' = IF ~ok THEN sheet_return(sheet_step(sheet, "header", sheet.worksheet, 0,
                                                    request), "False")
                ELSE IF sheet.total_rows = 0
                     THEN sheet_return(sheet_step(sheet, "header", Worksheet("new", 0), 0,
                                                  request), "True")
                     ELSE sheet_step(sheet, "batch", Worksheet("new", 0), 0, request)
  /\ sheet_unchanged

UploadHeaders == \E ok \in BOOLEAN : UpdateHeaders(ok)

\* worksheet.update(start_cell, data_batch) of the batch at i, start_row = i + 2.
UpdateBatch(ok) ==
  /\ sheet.pc = "batch"
  /\ \E request \in {SheetRequest("update", sheet.i + 2, ok)},
        written \in {Worksheet("new", batch_end(sheet.i, sheet.total_rows))} :
       sheet' = IF ~ok THEN sheet_return(sheet_step(sheet, "batch", sheet.worksheet, sheet.i,
                                                    request), "False")
                ELSE IF sheet.i + sheet_batch_size < sheet.total_rows
                     THEN sheet_step(sheet, "batch", written, sheet.i + sheet_batch_size,
                                     request)
                     ELSE sheet_return(sheet_step(sheet, "batch", written, sheet.i, request),
                                       "True")
  /\ sheet_unchanged

UploadBatch == \E ok \in BOOLEAN : UpdateBatch(ok)

SheetNext ==
  \/ CallUpdateGoogleSheetIncremental
  \/ OpenTheWorksheet
  \/ GetExistingRecords
  \/ ClearTheWorksheet
  \/ UploadHeaders
  \/ UploadBatch

SheetSpec == SheetInit /\ [][SheetNext]_vars

---------------------------------------------------------------------------
(* The upload of all courses as a process. *)

\* A record of a course table.
StoredProgress(email, value) ==
  [key \in {DB_EMAIL, DB_PROGRESS} |-> IF key = DB_EMAIL THEN email ELSE value]

\* The course tables before the call: all empty, or each holding the first
\* student with an older value.
COURSE_STORES ==
  { EMPTY_TABLES,
    [table_name \in COURSE_TABLES |-> << StoredProgress(Str(<<"s","1","@","e","d","u",".","h","s","e",".","r","u">>), Num(10, 1)) >>] }

\* A course table as extract_course_data returns it, n students with distinct
\* emails and, with junk, a row outside the domain and a row that repeats the
\* first student's email in capitals.
course_data(n, junk, name) ==
  LET rows == IF junk THEN n + 2 ELSE n
      email(i) == IF i = n + 1 THEN <<"x","@","g","m","a","i","l",".","c","o","m">>
                  ELSE IF i = n + 2 THEN <<" ","S","1","@","E","D","U",".","H","S","E",".","R","U"," ">>
                  ELSE <<"s">> \o int_str(i) \o DOMAIN_MARKER
      value(i) == IF i = n + 2 THEN Num(0, 1) ELSE IF i = 1 THEN Num(50, 1) ELSE NaN
  IN  Table(course_frame([i \in 1..rows |-> [email |-> email(i), percentage |-> value(i)]],
                         name))

\* The tables of one course: no rows, one student, and one student more than
\* a batch holds.
COURSE_DATA(name) ==
  { course_data(0, FALSE, name), course_data(1, TRUE, name),
    course_data(course_batch_size + 1, TRUE, name) }

\* The lists main builds: one table per course name.
ALL_COURSE_DATA ==
  { << cg, python, analysis >> :
      cg \in COURSE_DATA(CG), python \in COURSE_DATA(PITON), analysis \in COURSE_DATA(ANDAN) }

CoursesInit ==
  /\ op = "idle"
  /\ uploaded_file = NoFile
  /\ course_name = <<>>
  /\ result = NoResult
  /\ students = EmptyFrame
  /\ courses = <<>>
  /\ consolidated_data = NoResult
  /\ course_analytics = <<>>
  /\ uploads = <<>>
  /\ students_table = <<>>
  /\ upsert = NoUpsert
  /\ run = NoRun
  /\ sheet = NoSheet
  /\ course_uploads \in {[NoCourseUploads EXCEPT !.tables = tables] : tables \in COURSE_STORES}
  /\ invocations = NoInvocations

courses_unchanged ==
  UNCHANGED <<file_vars, sink_vars, upsert_vars, run, sheet, invocations>>

\* upload_all_courses_to_supabase(supabase, course_data_list, course_names) is
\* called.
UploadAllCoursesToSupabase(data_list, names) ==
  /\ course_uploads.pc = "idle"
  /\ op' = "upload_all_courses_to_supabase"
  /\ course_uploads' = CourseUploads("loop", data_list, names, 1, <<>>, course_uploads.tables,
                                     course_uploads.tables, "none")
  /\ courses_unchanged

CallUploadAllCoursesToSupabase ==
  \E data_list \in ALL_COURSE_DATA : UploadAllCoursesToSupabase(data_list, course_names)

\* One turn of the for loop: upload_course_data_to_supabase on the pair at k.
UploadCourseData(fails) ==
  /\ course_uploads.pc = "loop"
  /\ course_uploads.k <= zip_len(course_uploads.course_data_list, course_uploads.course_names)
  /\ \E done \in {upload_course_data_to_supabase(
                    course_uploads.tables, course_uploads.course_data_list[course_uploads.k],
                    course_uploads.course_names[course_uploads.k], fails)} :
       course_uploads' =
         [course_uploads EXCEPT
            !.k = next_pair(@, zip_len(course_uploads.course_data_list,
                                       course_uploads.course_names), done.returned),
            !.uploads = Append(@, done),
            !.tables = IF done.table_name = "" THEN @
                       ELSE [@ EXCEPT ![done.table_name] = done.table]]
  /\ UNCHANGED op
  /\ courses_unchanged

\* The remote service lets every request through, or has the request of the
\* first or of the second batch raise.
UploadNextCourse == \E fails \in 0..2 : UploadCourseData(fails)

\* After the loop: True when success_count == len(course_names).
ReturnFromUploadAllCourses ==
  /\ course_uploads.pc = "loop"
  /\ course_uploads.k > zip_len(course_uploads.course_data_list, course_uploads.course_names)
  /\ course_uploads' =
       [course_uploads EXCEPT
          !.pc = "done",
          !.returned = IF success_count(course_uploads.uploads)
                          = Len(course_uploads.course_names) THEN "True" ELSE "False"]
  /\ UNCHANGED op
  /\ courses_unchanged

CoursesNext ==
  \/ CallUploadAllCoursesToSupabase
  \/ UploadNextCourse
  \/ ReturnFromUploadAllCourses

CoursesSpec == CoursesInit /\ [][CoursesNext]_vars

---------------------------------------------------------------------------
(* The three uploads on one table: upload_students_to_supabase,             *)
(* upload_all_courses_to_supabase with the table as its first course, and   *)
(* upload_to_supabase, each called on a table whose email cells repeat,     *)
(* differ in case and blanks, lie outside the domain or are missing.        *)

RecordRow(fio, email, alt_email, value) ==
  [fio |-> fio, email |-> email, alt_email |-> alt_email, value |-> value]

RECORD_ROWS ==
  { RecordRow(Str(<<"N","1">>), Str(<<"a","@","e","d","u",".","h","s","e",".","r","u">>),   NaN, Num(50, 1)),
    RecordRow(Str(<<"N","2">>), Str(<<" ","A","@","E","D","U",".","H","S","E",".","R","U"," ">>), NaN, Num(70, 1)),
    RecordRow(Str(<<"N","3">>), Str(<<"b","@","g","m","a","i","l",".","c","o","m">>),    NaN, Num(10, 1)),
    RecordRow(Str(<<"N","4">>), Str(<<>>),              Str(<<"A","@","e","d","u",".","h","s","e",".","r","u">>), Num(20, 1)),
    RecordRow(Str(<<"N","5">>), Str(<<"b","@","e","d","u",".","h","s","e",".","r","u">>),   NaN, NaN) }

RECORD_COLUMNS == <<FIO, EMAIL, ALT_EMAIL, percent_column(CG)>>

record_frame(rows) ==
  DataFrame(RECORD_COLUMNS, Len(rows),
            [h \in {RECORD_COLUMNS[k] : k \in 1..Len(RECORD_COLUMNS)} |->
               [i \in 1..Len(rows) |->
                  CASE h = FIO       -> rows[i].fio
                    [] h = EMAIL     -> rows[i].email
                    [] h = ALT_EMAIL -> rows[i].alt_email
                    [] OTHER         -> rows[i].value]])

\* A table of more than one batch: upsert_batch_size + 1 students with
\* distinct emails, then the first two rows of RECORD_ROWS' kind once more.
long_record_frame ==
  record_frame([i \in 1..(upsert_batch_size + 3) |->
                  IF i = upsert_batch_size + 2
                  THEN RecordRow(Str(<<"a","g","a","i","n">>), Str(<<" ","S","1","@","E","D","U",".","H","S","E",".","R","U"," ">>), NaN, Num(70, 1))
                  ELSE IF i = upsert_batch_size + 3
                  THEN RecordRow(Str(<<"N","3">>), Str(<<"b","@","g","m","a","i","l",".","c","o","m">>), NaN, Num(10, 1))
                  ELSE RecordRow(Str(<<"S">> \o int_str(i)), Str(<<"s">> \o int_str(i) \o DOMAIN_MARKER),
                                 NaN, Num(50, 1))])

RECORD_FRAMES ==
  {record_frame(rows) : rows \in lists_upto(RECORD_ROWS, MaxRows)} \cup {long_record_frame}

\* What the combined table may do during the call: anything on a short
\* table; on the long one every insert batch has the same outcome, the
\* duplicate-key error with its inserts one by one being left to the short
\* tables.
record_faults(store, data_df) ==
  IF data_df.n <= MaxRows THEN faults_of(store, data_df)
  ELSE {Faults("ok", [b \in 1..batches(Len(plan.records_to_insert)) |-> outcome], {}, 0) :
          outcome \in INSERT_OUTCOMES \ {"duplicate"}, plan \in {analyse(store, data_df, data_df.n)}}

RecordsInit ==
  /\ op = "idle"
  /\ uploaded_file = NoFile
  /\ course_name = <<>>
  /\ result = NoResult
  /\ students \in RECORD_FRAMES
  /\ courses = <<>>
  /\ consolidated_data = [returned |-> TRUE, df |-> students]
  /\ course_analytics \in
       { <<>>, << Stored(Str(<<"O","l","d">>), Str(<<"a","@","e","d","u",".","h","s","e",".","r","u">>), Str(<<"F">>), Num(50, 1), None) >> }
  /\ uploads = <<>>
  /\ students_table = <<>>
  /\ upsert = NoUpsert
  /\ run = NoRun
  /\ sheet = NoSheet
  /\ course_uploads = NoCourseUploads
  /\ invocations = NoInvocations

\* upload_students_to_supabase on the table.
CallStudentsOnRecords ==
  /\ op = "idle"
  /\ UploadStudentsToSupabase(students)

\* upload_all_courses_to_supabase with the table as the course CG.
CallCoursesOnRecords ==
  /\ op = "idle"
  /\ UploadAllCoursesToSupabase(<<Table(students), Table(EmptyFrame), Table(EmptyFrame)>>,
                                course_names)

\* upload_to_supabase on the table.
CallCombinedOnRecords ==
  /\ op = "idle"
  /\ \E faults \in record_faults(course_analytics, students) : UploadToSupabase(faults)

RecordsNext ==
  \/ CallStudentsOnRecords
  \/ FirstUpsertOfBatch
  \/ RetryUpsertOfBatch
  \/ CallCoursesOnRecords
  \/ UploadNextCourse
  \/ ReturnFromUploadAllCourses
  \/ CallCombinedOnRecords

RecordsSpec == RecordsInit /\ [][RecordsNext]_vars

---------------------------------------------------------------------------
(* The processing button of the two pages, with the files it is given:      *)
(* streamlit_app.main and separated_db_functions.main call the loaders on   *)
(* the uploaded files and go on, or stop, by what each call returned.       *)

\* Roster files: a table with an email column as Excel, as text with an
\* unknown extension and as a CSV file no reading can parse; a table without
\* an email column.
MAIN_ROSTER_FILES ==
  { Excel(ROSTER_SAMPLE),
    UploadedFile(<<"r",".","t","x","t">>, ROSTER_SAMPLE, "ok", "ok", "ok"),
    UploadedFile(<<"r",".","c","s","v">>, ROSTER_SAMPLE, "ParserError", "ParserError", "ok"),
    Excel(DataFrame(<< <<"I","D">> >>, 1, [h \in {<<"I","D">>} |-> << Str(<<"1">>) >>])) }

\* Course files: exports with a timestamp column and with a direct
\* percentage column, an export with an unknown extension, one with no
\* column any strategy takes and one without an email column.
MAIN_COURSE_FILES ==
  { Excel(COURSE_SAMPLE),
    progress_file(<< Progress(VALID, Num(50, 1)) >>),
    UploadedFile(<<"c",".","t","x","t">>, COURSE_SAMPLE, "ok", "ok", "ok"),
    Excel(DataFrame(<<C_EMAIL>>, 1, [h \in {C_EMAIL} |-> <<VALID>>])),
    Excel(DataFrame(<<U1>>, 1, [h \in {U1} |-> <<TS>>])) }

\* The processing buttons of the two pages.
MAIN_LAUNCHABLE ==
  {launched \in LAUNCHABLE :
     /\ launched.entry \in {STREAMLIT, SEPARATED}
     /\ launched.program[Len(launched.program)].kind = "upload"
     /\ \E pc \in 1..Len(launched.program) : launched.program[pc].kind = "process"}

MainInit ==
  /\ op = "idle"
  /\ uploaded_file = NoFile
  /\ course_name = <<>>
  /\ result = NoResult
  /\ students = EmptyFrame
  /\ courses = <<>>
  /\ consolidated_data = NoResult
  /\ course_analytics = <<>>
  /\ uploads = <<>>
  /\ students_table = <<>>
  /\ upsert = NoUpsert
  /\ run = NoRun
  /\ sheet = NoSheet
  /\ course_uploads = NoCourseUploads
  /\ invocations = NoInvocations

\* The button is pressed, once.
PressProcess ==
  /\ run.count = 0
  /\ \E launched \in MAIN_LAUNCHABLE : Launch(launched)

\* main's step at pc ends with ok.
main_step(ok) ==
  [run EXCEPT !.pc = next_pc(run.program, run.pc, ok),
              !.events = Append(@, Event(run.program[run.pc], ok))]

\* student_list = load_student_list(student_file); None stops the run.
MainLoadStudentList(file) ==
  /\ run.pc > 0
  /\ run.program[run.pc].call = "load_student_list"
  /\ \E loaded_list \in {load_student_list(file)} :
       /\ op' = "load_student_list"
       /\ uploaded_file' = file
       /\ result' = loaded_list
       /\ students' = IF loaded_list.returned THEN loaded_list.df ELSE students
       /\ run' = main_step(loaded_list.returned)
  /\ UNCHANGED <<course_name, courses, consolidated_data, course_analytics, uploads,
                 upsert_vars, more_vars>>

MainLoadsStudentList == \E file \in MAIN_ROSTER_FILES : MainLoadStudentList(file)

\* One turn of the loop over zip(course_files, course_names):
\* extract_course_data on the next file; None stops the run, a table is
\* appended to course_data_list.
MainExtractCourseData(file) ==
  /\ run.pc > 0
  /\ run.program[run.pc].call = "extract_course_data"
  /\ \E name \in {course_names[Len(courses) + 1]} :
       \E extraction \in {extract_course_data(file, name)} :
         /\ op' = "extract_course_data"
         /\ uploaded_file' = file
         /\ course_name' = name
         /\ result' = extraction
         /\ courses' = IF extraction.returned
                       THEN Append(courses, Table(course_frame(extraction.rows, name)))
                       ELSE courses
         /\ run' = main_step(extraction.returned)
  /\ UNCHANGED <<students, consolidated_data, course_analytics, uploads,
                 upsert_vars, more_vars>>

MainExtractsCourseData == \E file \in MAIN_COURSE_FILES : MainExtractCourseData(file)

\* consolidated_data = consolidate_data(student_list, course_data_list,
\* course_names); None stops the run.
MainConsolidateData(na) ==
  /\ run.pc > 0
  /\ run.program[run.pc].call = "consolidate_data"
  /\ \E consolidated \in {consolidate_data(students, courses, course_names, na)} :
       /\ op' = "consolidate_data"
       /\ consolidated_data' = consolidated
       /\ run' = main_step(consolidated.returned)
  /\ UNCHANGED <<file_vars, students, courses, course_analytics, uploads,
                 upsert_vars, more_vars>>

MainConsolidatesData == \E na \in MISSING : MainConsolidateData(na)

MainNext ==
  \/ PressProcess
  \/ Authenticate
  \/ CheckConnection
  \/ MainLoadsStudentList
  \/ MainExtractsCourseData
  \/ MainConsolidatesData
  \/ UploadData

MainSpec == MainInit /\ [][MainNext]_vars

---------------------------------------------------------------------------
(* The race: two operators press the button at once, each with a table      *)
(* that has a record for the same email.                                    *)

SHARED_EMAIL == <<"a","@","e","d","u",".","h","s","e",".","r","u">>

\* The tables of the first and of the second invocation: the shared email
\* under the invocation's own name and value, alone or beside another
\* student.
race_data(fio, value) ==
  { record_frame(<< RecordRow(Str(fio), Str(SHARED_EMAIL), NaN, value) >>),
    record_frame(<< RecordRow(Str(fio), Str(SHARED_EMAIL), NaN, value),
                    RecordRow(Str(<<"N","5">>), Str(<<"b","@","e","d","u",".","h","s","e",".","r","u">>), NaN, NaN) >>),
    record_frame(<< RecordRow(Str(<<"N","5">>), Str(<<"b","@","e","d","u",".","h","s","e",".","r","u">>), NaN, NaN),
                    RecordRow(Str(fio), Str(<<" ","A","@","E","D","U",".","H","S","E",".","R","U"," ">>), NaN, value) >>) }

RaceInit ==
  /\ op = "idle"
  /\ uploaded_file = NoFile
  /\ course_name = <<>>
  /\ result = NoResult
  /\ students = EmptyFrame
  /\ courses = <<>>
  /\ consolidated_data = NoResult
  /\ \E seeded \in BOOLEAN :
       /\ course_analytics =
            IF seeded
            THEN << Stored(Str(<<"O","l","d">>), Str(SHARED_EMAIL), Str(<<"F">>), Num(10, 1), None) >>
            ELSE <<>>
       /\ students_table =
            IF seeded THEN << StoredStudent(Str(<<"O","l","d">>), Str(SHARED_EMAIL)) >> ELSE <<>>
  /\ uploads = <<>>
  /\ upsert = NoUpsert
  /\ run = NoRun
  /\ sheet = NoSheet
  /\ course_uploads = NoCourseUploads
  /\ \E path \in {"combined", "upsert"},
        first \in race_data(<<"N","1">>, Num(50, 1)), second \in race_data(<<"N","2">>, Num(70, 1)) :
       invocations =
         Invocations(path,
                     << Invocation("start", first, <<>>, <<>>),
                        Invocation("start", second, <<>>, <<>>) >>,
                     <<>>)

race_unchanged ==
  UNCHANGED <<op, file_vars, students, courses, consolidated_data, uploads, upsert, run,
              sheet, course_uploads>>

\* upload_to_supabase of invocation p reads the existing rows and classifies
\* its own: the select and the loop over data_df.iterrows().
SelectExisting(p) ==
  /\ invocations.path = "combined"
  /\ invocations.of[p].pc = "start"
  /\ invocations' =
       [invocations EXCEPT
          !.of[p].pc = "selected",
          !.of[p].plan = analyse(course_analytics, invocations.of[p].data_df,
                                 invocations.of[p].data_df.n)]
  /\ UNCHANGED <<course_analytics, students_table>>
  /\ race_unchanged

SelectsExisting == \E p \in 1..2 : SelectExisting(p)

\* upload_to_supabase of invocation p sends the inserts and updates of its
\* plan; the table answers by what it holds now.
WritePlan(p) ==
  /\ invocations.path = "combined"
  /\ invocations.of[p].pc = "selected"
  /\ \E done \in {upload_plan(course_analytics, invocations.of[p].plan,
                              unique_key_faults(course_analytics, invocations.of[p].plan))} :
       /\ course_analytics' = done.store
       /\ invocations' =
            [invocations EXCEPT !.of[p].pc = "done", !.of[p].done = done,
                                !.writes = Append(@, p)]
  /\ UNCHANGED students_table
  /\ race_unchanged

WritesPlan == \E p \in 1..2 : WritePlan(p)

\* upload_students_to_supabase of invocation p sends its one batch.
UpsertRecords(p) ==
  /\ invocations.path = "upsert"
  /\ invocations.of[p].pc = "start"
  /\ \E records \in {records_for_upsert(invocations.of[p].data_df)} :
       /\ students_table' = upsert_rows(students_table, records)
       /\ invocations' =
            [invocations EXCEPT !.of[p].pc = "done", !.of[p].done = records,
                                !.writes = Append(@, p)]
  /\ UNCHANGED course_analytics
  /\ race_unchanged

UpsertsRecords == \E p \in 1..2 : UpsertRecords(p)

RaceNext ==
  \/ SelectsExisting
  \/ WritesPlan
  \/ UpsertsRecords

RaceSpec == RaceInit /\ [][RaceNext]_vars

---------------------------------------------------------------------------
(* Properties of extract_course_data.  In a state reached by a call, df is *)
(* the table read and result the call's outcome.                           *)

in_df == uploaded_file.df

\* The call got as far as choosing a strategy.
strategy_ran == extracted /\ result.strategy # "none"

the_email_column == first_present(in_df, possible_email_names)

\* Row i holds an institutional email (any letter case).
valid_row(i) ==
  LET e == in_df.data[the_email_column][i]
  IN  notna(e) /\ contains(lower(pystr(e)), DOMAIN_MARKER)

\* The cell of row i under the k-th label of cols, as text ('' if missing).
text_at(cols, k, i) ==
  LET c == in_df.data[cols[k]][i]
  IN  IF isna(c) THEN <<>> ELSE strip(pystr(c))

non_empty(val) == val # <<>> /\ val # <<"n","a","n">>

\* c is the number 100 * k / n.
is_ratio(c, k, n) == c.t = "num" /\ n > 0 /\ c.p * n = 100 * k * c.q

is_zero(c) == c.t = "num" /\ c.p = 0

in_range(c) == c.t = "num" /\ 0 <= c.p /\ c.p <= 100 * c.q

has_direct_column ==
  \E k \in 1..Len(possible_completion_names) : has_column(in_df, possible_completion_names[k])

\* Timestamp cells of row i among the timestamp candidates.
ts_hits(i) ==
  {k \in 1..Len(result.timestamp_columns) :
     LET val == text_at(result.timestamp_columns, k, i)
     IN  non_empty(val) /\ is_timestamp(val)}

\* Non-empty cells of row i among the status candidates, and the done ones.
status_attempted(i) ==
  {k \in 1..Len(result.completed_columns) :
     non_empty(text_at(result.completed_columns, k, i))}

status_done(i) ==
  {k \in status_attempted(i) : is_done(text_at(result.completed_columns, k, i))}

\* C1: exactly one strategy produces the result, in fixed priority: the
\* timestamp strategy whenever a timestamp candidate was detected, else the
\* status-label strategy whenever a status candidate was detected, the direct
\* column only when both candidate lists are empty; a chosen column strategy
\* that emits no row returns None without falling through; every returned
\* value is the chosen strategy's own value.
C1_StrategyPriority ==
  strategy_ran =>
    /\ result.timestamp_columns # <<>> => result.strategy = "timestamp"
    /\ (result.timestamp_columns = <<>> /\ result.completed_columns # <<>>)
         => result.strategy = "status"
    /\ result.strategy = "direct"
         <=> (result.timestamp_columns = <<>> /\ result.completed_columns = <<>>)
    /\ (result.strategy \in {"timestamp", "status"} /\ ~(\E i \in 1..in_df.n : valid_row(i)))
         => (~result.returned /\ result.rows = <<>>)
    /\ \A j \in 1..Len(result.rows) :
         LET r == result.rows[j]
         IN  CASE result.strategy = "timestamp" ->
                    is_ratio(r.percentage, Cardinality(ts_hits(r.row)),
                             Len(result.timestamp_columns))
               [] result.strategy = "status" ->
                    IF status_attempted(r.row) = {} THEN is_zero(r.percentage)
                    ELSE is_ratio(r.percentage, Cardinality(status_done(r.row)),
                                  Cardinality(status_attempted(r.row)))
               [] OTHER ->
                    r.percentage =
                      in_df.data[first_present(in_df, possible_completion_names)][r.row]

\* C1 witness: all three kinds of column are present and the timestamp
\* strategy produced the rows.
C1_Witness ==
  /\ strategy_ran /\ result.returned
  /\ result.timestamp_columns # <<>> /\ result.completed_columns # <<>>
  /\ has_direct_column
  /\ result.strategy = "timestamp"
  /\ \E j \in 1..Len(result.rows) : result.rows[j].percentage = Num(100, 1)

\* C2: timestamp strategy: every emitted row has percentage 100*k/n, with n
\* the number of timestamp candidates and k the number of them whose cell in
\* that row is non-empty and timestamp-shaped; it lies in [0, 100]; n = 0
\* gives 0.
C2_TimestampPercentage ==
  (extracted /\ result.strategy = "timestamp") =>
    \A j \in 1..Len(result.rows) :
      LET r == result.rows[j]
          n == Len(result.timestamp_columns)
          k == Cardinality(ts_hits(r.row))
      IN  /\ valid_row(r.row)
          /\ IF n = 0 THEN is_zero(r.percentage) ELSE is_ratio(r.percentage, k, n)
          /\ in_range(r.percentage)

\* C2 witness: a row with one timestamp among two candidates, the other cell
\* non-empty but not timestamp-shaped, at 50 percent.
C2_Witness ==
  /\ extracted /\ result.strategy = "timestamp" /\ result.returned
  /\ Len(result.timestamp_columns) = 2
  /\ \E j \in 1..Len(result.rows) :
       LET r == result.rows[j]
       IN  /\ Cardinality(ts_hits(r.row)) = 1
           /\ \A k \in 1..Len(result.timestamp_columns) :
                non_empty(text_at(result.timestamp_columns, k, r.row))
           /\ r.percentage = Num(100, Len(result.timestamp_columns))

\* C3: status-label strategy: a candidate column whose cell is empty
\* (missing, blank or 'nan') for a row is left out of that row's denominator;
\* the percentage is 100*done/attempted over the non-empty cells, and 0 when
\* there is none.
C3_StatusPercentage ==
  (extracted /\ result.strategy = "status") =>
    \A j \in 1..Len(result.rows) :
      LET r == result.rows[j]
          attempted == Cardinality(status_attempted(r.row))
          done == Cardinality(status_done(r.row))
      IN  IF attempted = 0 THEN is_zero(r.percentage)
          ELSE is_ratio(r.percentage, done, attempted)

\* C3 witness: a row with an empty cell under one of two status candidates
\* and a percentage over the other alone.
C3_Witness ==
  /\ extracted /\ result.strategy = "status" /\ result.returned
  /\ Len(result.completed_columns) = 2
  /\ \E j \in 1..Len(result.rows) :
       LET r == result.rows[j]
       IN  /\ Cardinality(status_attempted(r.row)) = 1
           /\ in_df.data[result.completed_columns[2]][r.row] \in {BLANK, NANSTR}
           /\ r.percentage = Num(100, 1)

\* C4: status-label strategy: a not-done cell counts as attempted and not as
\* done, so a row whose non-empty candidate cells are d done and u not-done
\* statuses (d + u > 0) has percentage 100*d/(d+u).
C4_NotDoneIsNotDone ==
  (extracted /\ result.strategy = "status") =>
    \A j \in 1..Len(result.rows) :
      LET r == result.rows[j]
          cols == result.completed_columns
          d == Cardinality({k \in status_attempted(r.row) : text_at(cols, k, r.row) = DONE_MARKER})
          u == Cardinality({k \in status_attempted(r.row) : text_at(cols, k, r.row) = NOT_DONE})
      IN  (d + u > 0 /\ d + u = Cardinality(status_attempted(r.row)))
            => is_ratio(r.percentage, d, d + u)

\* C5: every emitted percentage, under any strategy, is a number in [0, 100]
\* or a missing value.
C5_PercentageInRange ==
  (extracted /\ result.returned) =>
    \A j \in 1..Len(result.rows) :
      isna(result.rows[j].percentage) \/ in_range(result.rows[j].percentage)

---------------------------------------------------------------------------
(* Properties of load_student_list. *)

roster_returned == loaded /\ result.returned

\* The headers of the input that hold a synonym of the k-th canonical field.
matching_headers(k) ==
  {i \in 1..Len(in_df.columns) :
     \E s \in 1..Len(required_columns[k].names) :
        contains(strip(lower(in_df.columns[i])), required_columns[k].names[s])}

\* The composite column rewrote faculty, program, course level and group.
composite_applied ==
  /\ has_column(in_df, USER_DATA)
  /\ \E i \in 1..in_df.n :
       Len(split(pystr(in_df.data[USER_DATA][i]), ";")) >= 4

\* The source header the canonical field `target` resolved to, <<>> if none.
source_of(target) ==
  LET hits == {j \in 1..Len(result.found_columns) : result.found_columns[j].target = target}
  IN  IF hits = {} THEN <<>> ELSE result.found_columns[CHOOSE j \in hits : TRUE].source

\* C7: the returned roster has every canonical field as a column, whatever
\* the headers; a field no header matched (and the composite column did not
\* fill) holds the empty default in every row.
C7_AllCanonicalFields ==
  roster_returned =>
    \A k \in 1..Len(required_columns) :
      LET target == required_columns[k].target
      IN  /\ has_column(result.df, target)
          /\ Len(result.df.data[target]) = result.df.n
          /\ (matching_headers(k) = {}
                /\ ~(composite_applied /\ target \in {FACULTY, PROGRAM, COURSE, GROUP}))
               => \A i \in 1..result.df.n : result.df.data[target][i] = Str(<<>>)

\* C7 witness: a roster none of whose headers matches any synonym, returned
\* with all eight fields.
C7_Witness ==
  /\ roster_returned
  /\ Len(in_df.columns) >= 1
  /\ \A k \in 1..Len(required_columns) : matching_headers(k) = {}
  /\ Len(result.df.columns) = Len(required_columns)

\* C8: every returned row's email holds the domain marker and is lowercased
\* and trimmed.
C8_EmailsHoldMarker ==
  roster_returned =>
    \A i \in 1..result.df.n :
      LET e == result.df.data[EMAIL][i]
      IN  /\ e.t = "str"
          /\ contains(e.s, DOMAIN_MARKER)
          /\ e.s = lower(e.s) /\ e.s = strip(e.s)

\* C9: the roster post-filter is case-insensitive: a row whose email holds
\* the marker in any letter case is kept, with its email lowercased.
C9_FilterIgnoresCase ==
  (roster_returned /\ source_of(EMAIL) # <<>>) =>
    \A i \in 1..in_df.n :
      LET e == pystr(in_df.data[source_of(EMAIL)][i])
      IN  contains(lower(e), DOMAIN_MARKER)
            => \E j \in 1..result.df.n : result.df.data[EMAIL][j] = Str(strip(lower(e)))

\* C10: each canonical field resolves to the first header, in file order,
\* whose lowercased trimmed text holds any of the field's synonyms, whichever
\* synonym that is; a field with no such header resolves to none, and the
\* field's column holds that header's cells.
C10_FirstHeaderWins ==
  roster_returned =>
    \A k \in 1..Len(required_columns) :
      LET target == required_columns[k].target
          m == matching_headers(k)
      IN  IF m = {} THEN source_of(target) = <<>>
          ELSE LET first == CHOOSE i \in m : \A j \in m : i <= j
               IN  /\ source_of(target) = in_df.columns[first]
                   /\ (target # EMAIL
                         /\ ~(composite_applied /\ target \in {FACULTY, PROGRAM, COURSE, GROUP}))
                        => \A r \in 1..result.df.n :
                             \E i \in 1..in_df.n :
                                result.df.data[target][r] = in_df.data[in_df.columns[first]][i]

\* C10 witness: 'Username' stands before the full-name header; the full-name
\* field took 'Username', which holds only the last synonym of its list,
\* while the later header holds the first.
C10_Witness ==
  /\ roster_returned /\ result.df.n >= 1
  /\ \E a, b \in 1..Len(in_df.columns) :
       /\ a < b
       /\ in_df.columns[a] = <<"U","s","e","r","n","a","m","e">> /\ in_df.columns[b] = <<"F~","I~","O~">>
       /\ ~contains(strip(lower(in_df.columns[a])), required_columns[1].names[1])
       /\ contains(strip(lower(in_df.columns[b])), required_columns[1].names[1])
  /\ source_of(FIO) = <<"U","s","e","r","n","a","m","e">>
  /\ \A r \in 1..result.df.n : result.df.data[FIO][r] = Str(<<"U","s","e","r","n","a","m","e">>)

\* C11: no input header is assigned to more than one canonical field: two
\* fields that resolved never resolved to the same source header.
C11_HeaderUsedOnce ==
  roster_returned =>
    \A a, b \in 1..Len(result.found_columns) :
      a # b => result.found_columns[a].source # result.found_columns[b].source

\* The k-th ';'-separated part of the composite column's cell in row i of the
\* input, None when the cell has fewer parts.
user_data_part(i, k) ==
  LET parts == split(pystr(in_df.data[USER_DATA][i]), ";")
  IN  IF k <= Len(parts) THEN Str(parts[k]) ELSE None

\* C12: whenever the composite column is present, every returned row holds
\* in faculty, program, course level and group the 1st to 4th part of the
\* composite cell of an input row, whatever the synonym matching resolved
\* and however many parts the cells have.
C12_CompositeOverwrites ==
  (roster_returned /\ has_column(in_df, USER_DATA)) =>
    \A r \in 1..result.df.n :
      \E i \in 1..in_df.n :
        /\ result.df.data[FACULTY][r] = user_data_part(i, 1)
        /\ result.df.data[PROGRAM][r] = user_data_part(i, 2)
        /\ result.df.data[COURSE][r]  = user_data_part(i, 3)
        /\ result.df.data[GROUP][r]   = user_data_part(i, 4)

---------------------------------------------------------------------------
(* Properties of consolidate_data and upload_to_supabase (SinkSpec).        *)

\* The emails of a table's rows.
emails_of(df) == {df.data[EMAIL][i] : i \in 1..df.n}

\* The first row of df with the given email.
first_row(df, email) ==
  CHOOSE i \in 1..df.n :
    /\ df.data[EMAIL][i] = email
    /\ \A j \in 1..(i - 1) : df.data[EMAIL][j] # email

\* The courses consolidate_data merged: the pairs of zip with a table.
merged_courses ==
  {k \in 1..zip_len(courses, course_names) : ~courses[k].none}

\* C13: the consolidated table has exactly one row per distinct email of
\* the roster, and that row is the first occurrence in original order: it
\* carries the roster fields of the first roster row with the email and, per
\* course, the percentage of the first course row with the email.
C13_OneRowPerEmail ==
  consolidate_returned =>
    LET out == consolidated_data.df
    IN  /\ emails_of(out) = emails_of(students)
        /\ \A r, q \in 1..out.n : r # q => out.data[EMAIL][r] # out.data[EMAIL][q]
        /\ \A r \in 1..out.n :
             LET email == out.data[EMAIL][r]
             IN  /\ \A c \in 1..Len(students.columns) :
                      out.data[students.columns[c]][r]
                        = students.data[students.columns[c]][first_row(students, email)]
                 /\ \A k \in merged_courses :
                      email \in emails_of(courses[k].df) =>
                        out.data[percent_column(course_names[k])][r]
                          = courses[k].df.data[percent_column(course_names[k])]
                              [first_row(courses[k].df, email)]

\* C13 witness: two roster rows share an email under different names, and
\* a course lists that email twice; one row is returned, with the first
\* row's name and the first course row's percentage.
C13_Witness ==
  /\ consolidate_returned
  /\ students.n = 2
  /\ students.data[EMAIL][1] = students.data[EMAIL][2]
  /\ students.data[FIO][1] # students.data[FIO][2]
  /\ 1 \in merged_courses
  /\ courses[1].df.n = 2
  /\ courses[1].df.data[EMAIL][1] = students.data[EMAIL][1]
  /\ courses[1].df.data[EMAIL][2] = students.data[EMAIL][1]
  /\ consolidated_data.df.n = 1
  /\ consolidated_data.df.data[FIO][1] = students.data[FIO][1]
  /\ consolidated_data.df.data[percent_column(CG)][1] = Num(0, 1)

\* C14: consolidating the output again with the same course data returns a
\* table of the same number of rows.
C14_ConsolidateIdempotent ==
  consolidate_returned =>
    \A na \in MISSING :
      LET again == consolidate_data(consolidated_data.df, courses, course_names, na)
      IN  again.returned /\ again.df.n = consolidated_data.df.n

\* C15: every email of the consolidated table is an email of the roster.
C15_OnlyRosterEmails ==
  consolidate_returned =>
    \A r \in 1..consolidated_data.df.n :
      consolidated_data.df.data[EMAIL][r] \in emails_of(students)

\* C15 witness: a course holds an email the roster does not have, and the
\* consolidated table has rows.
C15_Witness ==
  /\ consolidate_returned
  /\ consolidated_data.df.n >= 1
  /\ \E k \in merged_courses :
       \E j \in 1..courses[k].df.n :
          courses[k].df.data[EMAIL][j] \notin emails_of(students)

\* The key of the remote record that holds the k-th course's percentage.
percent_key(k) ==
  record_fields[CHOOSE f \in 1..Len(record_fields) :
                  record_fields[f].column = percent_column(course_names[k])].key

\* The rows of the consolidated table whose email the k-th course lacks.
unmatched_rows(k) ==
  {r \in 1..consolidated_data.df.n :
     consolidated_data.df.data[EMAIL][r] \notin emails_of(courses[k].df)}

C17_FieldLevelMerge ==
  uploaded =>
    LET last == uploads[Len(uploads)]
    IN  last.returned =>
          \A e \in 1..Len(last.plan.rows) :
            LET row == last.plan.rows[e]
            IN  row.id # 0 =>
                  \A key \in record_keys :
                    IF row.record[key] # None
                    THEN last.store[row.id][key] = row.record[key]
                    ELSE last.store[row.id][key] = last.store_before[row.id][key]

\* Every request of an upload was taken by the remote table.
clean(upload) ==
  /\ upload.returned
  /\ upload.faults.select = "ok"
  /\ \A q \in 1..Len(upload.requests) : upload.requests[q].outcome = "ok"

\* C18: the same table uploaded a second time, after a first upload all of
\* whose requests the remote table took: every record is classified as
\* unchanged, no insert and no update is requested, and the remote table is
\* as the first upload left it.
C18_SecondUploadUnchanged ==
  (uploaded /\ Len(uploads) = 2 /\ clean(uploads[1]) /\ uploads[2].faults.select = "ok") =>
    /\ uploads[2].returned
    /\ uploads[2].requests = <<>>
    /\ uploads[2].plan.records_to_insert = <<>>
    /\ uploads[2].plan.records_to_update = <<>>
    /\ uploads[2].plan.unchanged_count = Len(uploads[2].plan.rows)
    /\ uploads[2].plan.rows # <<>> => uploads[1].plan.rows # <<>>
    /\ Len(uploads[2].plan.rows) = Len(uploads[1].plan.rows)
    /\ course_analytics = uploads[1].store
    /\ uploads[2].store_before = uploads[1].store

\* C18 witness: the first upload inserted one record and updated another;
\* the second found both unchanged.
C18_Witness ==
  /\ uploaded /\ Len(uploads) = 2 /\ clean(uploads[1])
  /\ uploads[1].plan.records_to_insert # <<>>
  /\ uploads[1].plan.records_to_update # <<>>
  /\ uploads[2].faults.select = "ok"
  /\ uploads[2].plan.unchanged_count = 2
  /\ uploads[2].requests = <<>>
---------------------------------------------------------------------------
(* The student upload: retry and abort. *)

\* The error text contains one of the transient-network substrings, whatever
\* its case.
names_network_error(text) ==
  \E pat \in {<<"c","o","n","n","e","c","t","i","o","n">>, <<"t","i","m","e","o","u","t">>, <<"s","s","l">>, <<"e","o","f">>} : contains(lower(text), pat)

\* The records of the batches before the one at i.
earlier_records == {upsert.records[r] : r \in 1..upsert.i}

stored_students == {students_table[id] : id \in 1..Len(students_table)}

\* C19: in upload_students_to_supabase a failed batch upsert is retried only
\* when its error text matches the transient-network substrings, and at most
\* once per batch; after a non-matching error or a failed retry the function
\* has returned False and sent no further request, and the records of every
\* batch before the failing one are in the remote table.
C19_RetryOnceThenAbort ==
  LET log == upsert.requests
  IN  /\ \A k \in 1..Len(log) :
           /\ log[k].attempt = "retry" =>
                /\ k > 1
                /\ log[k - 1].attempt = "first"
                /\ log[k - 1].i = log[k].i
                /\ ~log[k - 1].outcome.ok
                /\ names_network_error(log[k - 1].outcome.text)
           /\ \A j \in 1..Len(log) :
                (log[j].i = log[k].i /\ log[j].attempt = log[k].attempt) => j = k
           /\ (~log[k].outcome.ok
                 /\ (log[k].attempt = "retry" \/ ~names_network_error(log[k].outcome.text))) =>
                /\ k = Len(log)
                /\ upsert.pc = "done"
                /\ ~upsert.returned
                /\ log[k].i = upsert.i
      /\ (upsert.pc = "done" /\ ~upsert.returned) => earlier_records \subseteq stored_students

\* The function has returned False at the second or a later batch on an error
\* that names no network failure, after an earlier batch went through on its
\* retry; the remote table has changed.
C19_Witness ==
  LET log == upsert.requests
  IN  /\ upsert.pc = "done"
      /\ ~upsert.returned
      /\ upsert.i >= upsert_batch_size
      /\ log[Len(log)].attempt = "first"
      /\ ~names_network_error(log[Len(log)].outcome.text)
      /\ \E k \in 1..Len(log) : log[k].attempt = "retry" /\ log[k].outcome.ok
      /\ students_table # upsert.before
      /\ earlier_records # {}

---------------------------------------------------------------------------
(* The entry points: authentication and the files. *)

\* The kinds of call that load or process an input file or write an output
\* artifact.
FILE_KINDS == {"load", "process", "write"}

\* The positions of the run's events where authentication failed.
failed_authentications ==
  {k \in 1..Len(run.events) : run.events[k].kind = "authenticate" /\ ~run.events[k].ok}

\* C20: in every entry point, when remote authentication fails the run ends
\* before any input file is loaded or processed and before any output artifact
\* is written: a run with a failed authentication has no file event at all.
C20_AuthenticationBeforeFiles ==
  run.entry \in {STREAMLIT, SEPARATED, CONSOLIDATE, SIMPLE} =>
    \A k \in failed_authentications :
      /\ run.pc = 0
      /\ \A j \in 1..Len(run.events) : run.events[j].kind \notin FILE_KINDS

---------------------------------------------------------------------------
(* The readings of a delimited-text file. *)

\* C22: for a delimited-text file the readings are tried in the order UTF-16,
\* UTF-8, cp1251, each only after the one before it failed; the function
\* gives up on the reading only after all three were tried, and a failure of
\* the UTF-8 reading, of any kind, is followed by the cp1251 reading.
C22_AllReadingsBeforeGivingUp ==
  (op # "idle" /\ endswith(lower(uploaded_file.name), <<".","c","s","v">>)) =>
    LET tried == result.read.tried
    IN  /\ tried = SubSeq(<<"utf-16", "utf-8", "cp1251">>, 1, Len(tried))
        /\ Len(tried) >= 2 => uploaded_file.utf16 # "ok"
        /\ Len(tried) = 3 => uploaded_file.utf8 # "ok"
        /\ result.read.status # "ok" => Len(tried) = 3
        /\ (Len(tried) >= 2 /\ uploaded_file.utf8 # "ok") => Len(tried) = 3

---------------------------------------------------------------------------
(* The denylist of the course CG. *)

\* The column scan ran: the file was read and has an email column.
scan_ran == extracted /\ result.read.status = "ok" /\ the_email_column # <<>>

candidate_columns ==
  {result.timestamp_columns[k] : k \in 1..Len(result.timestamp_columns)}
  \cup {result.completed_columns[k] : k \in 1..Len(result.completed_columns)}

\* C25: for the course CG a column whose lowercased, trimmed name contains a
\* substring of the denylist is no timestamp and no status candidate; for any
\* other course such a column, unless it is one of the labels the scan skips
\* for every course, is a candidate exactly when it passes the test of its
\* kind.
C25_DenylistOnlyForCG ==
  scan_ran =>
    \A i \in 1..Len(in_df.columns) :
      LET col == in_df.columns[i]
      IN  should_exclude(col) =>
            IF course_name = CG THEN col \notin candidate_columns
            ELSE col \notin never_candidates(the_email_column) =>
                   (col \in candidate_columns
                      <=> (is_completed_column(in_df, col) \/ is_timestamp_column(in_df, col)))

\* The course is CG and a denylisted column that passes the status test is
\* left out, while another column is a candidate.
C25_Witness ==
  /\ scan_ran
  /\ course_name = CG
  /\ \E i \in 1..Len(in_df.columns) :
       /\ should_exclude(in_df.columns[i])
       /\ is_completed_column(in_df, in_df.columns[i])
       /\ in_df.columns[i] \notin candidate_columns
  /\ candidate_columns # {}

---------------------------------------------------------------------------
(* The combined upload: what the operator is told, and what True means. *)

\* C24: no remote-write failure is silently swallowed: every insert or update
\* request of upload_to_supabase that raised, the individual inserts after a
\* duplicate-key error included, has an error message reporting it.
C24_EveryFailureReported ==
  \A u \in 1..Len(uploads) :
    \A r \in 1..Len(uploads[u].requests) :
      uploads[u].requests[r].outcome = "error" =>
        \E m \in 1..Len(uploads[u].messages) : uploads[u].messages[m].request = r

\* The records of the remote table after upload u.
stored_after(u) == {uploads[u].store[id] : id \in 1..Len(uploads[u].store)}

\* C27: upload_to_supabase returns True only if every record it planned to
\* insert and every record it planned to update was written: after a call that
\* returned True each planned record is in the remote table.
C27_TrueMeansWritten ==
  \A u \in 1..Len(uploads) :
    uploads[u].returned =>
      /\ \A k \in 1..Len(uploads[u].plan.records_to_insert) :
           uploads[u].plan.records_to_insert[k] \in stored_after(u)
      /\ \A k \in 1..Len(uploads[u].plan.records_to_update) :
           uploads[u].store[uploads[u].plan.records_to_update[k].id]
             = uploads[u].plan.records_to_update[k].record

---------------------------------------------------------------------------
(* The Google sheet: what True means. *)

\* The sheet holds the table handed to upload_data_in_batches: it was cleared
\* and the header and every batch were written.
sheet_written ==
  /\ \E k \in 1..Len(sheet.requests) :
       sheet.requests[k].call = "clear" /\ sheet.requests[k].ok
  /\ sheet.worksheet = Worksheet("new", sheet.total_rows)
  /\ \A k \in 1..Len(sheet.requests) :
       sheet.requests[k].call \in {"clear", "update"} => sheet.requests[k].ok

\* C28: update_google_sheet_incremental returns True only if the worksheet
\* was cleared and the header and every data batch were written; when a
\* request of upload_data_in_batches fails, it does not report success.
C28_TrueMeansSheetWritten ==
  (sheet.pc = "done" /\ sheet.returned = "True") => sheet_written

---------------------------------------------------------------------------
(* The upload of all courses. *)

\* The call of upload_course_data_to_supabase left every record it built in
\* the course's table.
course_written(done) ==
  \A r \in 1..Len(done.records) :
    \E id \in 1..Len(course_uploads.tables[done.table_name]) :
      course_uploads.tables[done.table_name][id] = done.records[r]

\* C29: upload_all_courses_to_supabase attempts the upload of every course in
\* list order, also after the upload of an earlier course failed, and returns
\* True exactly when every course upload returned True; the courses whose
\* upload returned True are fully written to their tables whatever the
\* result of the others.
C29_EveryCourseAttempted ==
  LET done == course_uploads.uploads
      names == course_uploads.course_names
  IN  /\ course_uploads.pc = "loop" => Len(done) = course_uploads.k - 1
      /\ \A j \in 1..Len(done) : done[j].table_name = table_mapping(names[j])
      /\ \A j \in 1..Len(done) : done[j].returned => course_written(done[j])
      /\ course_uploads.pc = "done" =>
           /\ Len(done) = Len(names)
           /\ course_uploads.returned = "True" <=> \A j \in 1..Len(done) : done[j].returned

\* The call returned False after the upload of the first course failed, and
\* the third course, of more than one batch, was uploaded and is in its table.
C29_Witness ==
  /\ course_uploads.pc = "done"
  /\ course_uploads.returned = "False"
  /\ Len(course_uploads.uploads) = 3
  /\ ~course_uploads.uploads[1].returned
  /\ course_uploads.uploads[3].returned
  /\ Len(course_uploads.uploads[3].records) > course_batch_size
  /\ Len(course_uploads.uploads[3].requests) = 2
  /\ course_written(course_uploads.uploads[3])

---------------------------------------------------------------------------
(* The emails of the records sent to the store. *)

\* The emails of a list of records.
record_emails(records) == [r \in 1..Len(records) |-> records[r][DB_EMAIL].s]

\* Every email is lowercased, trimmed and of the domain, and no two are equal.
distinct_valid(emails) ==
  /\ \A r \in 1..Len(emails) :
       /\ emails[r] = lower(emails[r])
       /\ emails[r] = strip(emails[r])
       /\ contains(emails[r], DOMAIN_MARKER)
  /\ \A r, s \in 1..Len(emails) : r # s => emails[r] # emails[s]

\* The input rows that are the first with their email, the email being the
\* row's email cell lowercased and trimmed, and of the domain.
first_rows(row_emails) ==
  SelectSeq([i \in 1..Len(row_emails) |-> i],
            LAMBDA i : /\ row_emails[i] # <<>>
                       /\ contains(row_emails[i], DOMAIN_MARKER)
                       /\ \A j \in 1..(i - 1) : row_emails[j] # row_emails[i])

\* upload_students_to_supabase: the records are those of the first rows, in
\* input order, and the batches of the requests are slices of the records at
\* distinct places.
students_sent_once ==
  upsert.pc # "idle" =>
    \E firsts \in {first_rows([i \in 1..students.n |-> student_email(students, i)])} :
      /\ distinct_valid(record_emails(upsert.records))
      /\ upsert.records = [r \in 1..Len(firsts) |-> student_record(students, firsts[r])]
      /\ \A k \in 1..Len(upsert.requests) :
           /\ upsert.requests[k].i % upsert_batch_size = 0
           /\ upsert.requests[k].i + upsert.requests[k].size <= Len(upsert.records)
           /\ upsert.requests[k].first = upsert.records[upsert.requests[k].i + 1][DB_EMAIL]
           /\ upsert.requests[k].size <= upsert_batch_size

\* upload_course_data_to_supabase, the same.
courses_sent_once ==
  \A c \in 1..Len(course_uploads.uploads) :
    \E done \in {course_uploads.uploads[c]} :
      \E df \in {course_uploads.course_data_list[c].df} :
        \E firsts \in {first_rows([i \in 1..df.n |-> student_email(df, i)])} :
          /\ distinct_valid(record_emails(done.records))
          /\ done.records =
               [r \in 1..Len(firsts) |->
                  course_record(df, firsts[r], course_uploads.course_names[c])]
          /\ \A k \in 1..Len(done.requests) :
               /\ done.requests[k].i = (k - 1) * course_batch_size
               /\ done.requests[k].batch =
                    SubSeq(done.records, done.requests[k].i + 1,
                           done.requests[k].i + Len(done.requests[k].batch))
               /\ Len(done.requests[k].batch) <= course_batch_size

\* upload_to_supabase: the records to insert and to update are records of
\* first rows, in input order, the email being the one of the email column or
\* else of the alternative column; every request carries records of them, an
\* insert batch a slice at its own place.
combined_sent_once ==
  \A u \in 1..Len(uploads) :
    \E plan \in {uploads[u].plan} :
      \E row_emails \in {[i \in 1..students.n |-> row_email(students, i)]} :
        \E firsts \in {first_rows(row_emails)} :
          \E sent \in {plan.records_to_insert
                       \o [k \in 1..Len(plan.records_to_update) |->
                             plan.records_to_update[k].record]} :
            /\ distinct_valid(record_emails(sent))
            /\ \A r \in 1..Len(sent) :
                 \E f \in 1..Len(firsts) :
                   /\ row_emails[firsts[f]] = sent[r][DB_EMAIL].s
                   /\ sent[r] = new_record(students, firsts[f])
            /\ \A r, s \in 1..Len(plan.rows) : r < s => plan.rows[r].row < plan.rows[s].row
            /\ \A k \in 1..Len(uploads[u].requests) :
                 \A r \in 1..Len(uploads[u].requests[k].records) :
                   \E s \in 1..Len(sent) : sent[s] = uploads[u].requests[k].records[r]
            /\ \A b \in 1..batches(Len(plan.records_to_insert)) :
                 \A c \in 1..batches(Len(plan.records_to_insert)) :
                   b # c =>
                     \A r \in 1..Len(batch_data(plan.records_to_insert, b)) :
                       \A s \in 1..Len(batch_data(plan.records_to_insert, c)) :
                         batch_data(plan.records_to_insert, b)[r][DB_EMAIL]
                           # batch_data(plan.records_to_insert, c)[s][DB_EMAIL]

\* C30: in upload_students_to_supabase, upload_course_data_to_supabase and
\* upload_to_supabase the records built for the store in one call hold each
\* email at most once, the record being that of the first input row with the
\* email, in input order; every email is lowercased, trimmed and contains
\* '@edu.hse.ru'; and the emails of the batches of the call are pairwise
\* distinct.
C30_EachEmailSentOnce ==
  /\ students_sent_once
  /\ courses_sent_once
  /\ combined_sent_once

\* A table of more than one batch with a repeated email and an email outside
\* the domain was sent by upload_students_to_supabase in two batches, the two
\* rows left out.
C30_Witness ==
  /\ upsert.pc = "done"
  /\ upsert.returned
  /\ Len(upsert.requests) = 2
  /\ Len(upsert.records) = upsert_batch_size + 1
  /\ students.n = upsert_batch_size + 3
  /\ \E i \in 1..students.n :
       /\ student_email(students, i) = student_email(students, 1)
       /\ i # 1

---------------------------------------------------------------------------
(* The processing button: what a loader's None does to the run. *)

\* The number of calls of the function the run has made.
calls_of(call) == Cardinality({k \in 1..Len(run.events) : run.events[k].call = call})

\* The table put in place of a course without a result: the roster's emails,
\* the course's percentage unknown for each.
placeholder(roster, name) ==
  Table(course_frame([i \in 1..roster.n |-> [email |-> roster.data[EMAIL][i].s,
                                             percentage |-> NaN]], name))

\* C21: in the two pages, when extract_course_data yields no result for a
\* course the run does not stop: an all-unknown table for that course, keyed
\* by the roster's emails, is put in its place and the run goes on to
\* consolidation and upload.
C21_PlaceholderOnFailedExtract ==
  (run.count > 0 /\ op = "extract_course_data" /\ ~result.returned) =>
    /\ run.pc # 0
    /\ Len(courses) = calls_of("extract_course_data")
    /\ courses[Len(courses)] = placeholder(students, course_name)

\* The file's name ends in none of .xlsx, .xls, .csv, whatever the case.
unsupported_extension(file) ==
  /\ ~endswith(lower(file.name), <<".","x","l","s","x">>)
  /\ ~endswith(lower(file.name), <<".","x","l","s">>)
  /\ ~endswith(lower(file.name), <<".","c","s","v">>)

\* C23: when the uploaded file's name has none of the extensions .xlsx, .xls,
\* .csv, load_student_list and extract_course_data report an error and
\* return None without raising, and main then stops the run: the call is the
\* run's last, and no consolidation or upload follows it.
C23_UnsupportedExtensionStopsRun ==
  (run.count > 0 /\ op \in {"load_student_list", "extract_course_data"}
     /\ unsupported_extension(uploaded_file)) =>
    /\ result.read.status = "unsupported"
    /\ ~result.returned
    /\ run.pc = 0
    /\ run.events[Len(run.events)] =
         [call |-> op, kind |-> "load", ok |-> FALSE]
    /\ \A k \in 1..Len(run.events) : run.events[k].kind \notin {"process", "upload"}
    /\ consolidated_data = NoResult

\* The third course's file has an unknown extension: the roster and two
\* courses were loaded, and the run is over.
C23_Witness ==
  /\ run.count > 0
  /\ op = "extract_course_data"
  /\ unsupported_extension(uploaded_file)
  /\ Len(courses) = 2
  /\ students.n > 0
  /\ run.pc = 0

---------------------------------------------------------------------------
(* Two invocations at once. *)

\* Both invocations have issued their writes.
race_over == invocations.path # "none" /\ Len(invocations.writes) = 2

\* The table the invocations write to.
raced_table == IF invocations.path = "combined" THEN course_analytics ELSE students_table

\* The rows of the table filed under the shared email.
shared_rows == {id \in 1..Len(raced_table) : raced_table[id][DB_EMAIL] = Str(SHARED_EMAIL)}

\* The record invocation p built for the shared email.
record_of_invocation(p) ==
  LET df == invocations.of[p].data_df
      i == CHOOSE i \in 1..df.n : row_email(df, i) = SHARED_EMAIL
  IN  IF invocations.path = "combined" THEN new_record(df, i) ELSE student_record(df, i)

\* C26: with two invocations at once against the same table, each writing a
\* record for the same email, the table ends with exactly one row for that
\* email, and the row is the record of the invocation that issued its write
\* last; on the combined path as on the upsert path.
C26_LastWriterWins ==
  race_over =>
    /\ Cardinality(shared_rows) = 1
    /\ \A id \in shared_rows :
         raced_table[id] = record_of_invocation(invocations.writes[2])


=============================================================================
